---- MODULE Spec2Model ----
(***************************************************************************)
(* Model of the JSON -> Excel pipeline of Json_to_Excel: JsonAnalyzer      *)
(* (structure inference), ExcelGenerator.create_excel_file (two passes),   *)
(* ExcelFormatter (headers) and ExcelDataWriter (rows).                    *)
(*                                                                         *)
(* A Python str is a sequence of one-character strings, so that sorting,   *)
(* truncation and concatenation are computed and not assumed.  A JSON      *)
(* value is a record with its kind k ("str", "num", "null", "list",        *)
(* "dict") and one payload field per kind: s (the characters of a str),    *)
(* n (a number), l (the items of a list), d (the <<key, value>> pairs of   *)
(* a dictionary in insertion order).                                       *)
(***************************************************************************)
EXTENDS Integers, Sequences, FiniteSets, TLC

VARIABLES
    all_json_data,       \* input: sequence of [name, data], one per file
    filter_text,         \* input: text to remove from file names
    apply_value_filters, \* input flag of create_excel_file
    pc,                  \* "pass1" | "pass2" | "done" | "failed"; "flatten" |
                         \* "flattened", "classify" | "classified" for a
                         \* function applied on its own
    cursor,              \* index, in encounter order, of the report the running loop is at
    all_structure_info,  \* pass 1 table: sheet key -> structure_info
    worksheets,          \* pass 2 table: sheet key -> sheet, next_row, ...
    total_reports_processed,
    pass1_keys,          \* sheet keys pass 1 computed, in report order
    pass2_keys,          \* sheet keys pass 2 computed, in report order
    error,               \* the exception that ended the run, "" if none
    saved,               \* workbook.save was executed
    headers_written,     \* sheet keys setup_headers was run for, in order
    arg,                 \* input of a function applied on its own
    out                  \* its result

vars == <<all_json_data, filter_text, apply_value_filters, pc, cursor, all_structure_info,
          worksheets, total_reports_processed, pass1_keys, pass2_keys,
          error, saved, headers_written, arg, out>>

-----------------------------------------------------------------------------
(* Bounds of the inputs *)

\* reports in one run
MaxReports == 2

\* items of a list of dictionaries
MaxItems == 3

-----------------------------------------------------------------------------
(* Python str and list primitives *)

Max(a, b) == IF a >= b THEN a ELSE b

Min(a, b) == IF a <= b THEN a ELSE b

\* The characters of the model in code point order.
Alphabet ==
    <<" ", "#", "&", "(", ")", "*", "+", ",", "-", ".", "/",
      "0", "1", "2", "3", "4", "5", "6", "7", "8", "9", ":", "?",
      "A", "B", "C", "D", "E", "F", "G", "H", "I", "J", "K", "L", "M",
      "N", "O", "P", "Q", "R", "S", "T", "U", "V", "W", "X", "Y", "Z",
      "[", "\\", "]", "_",
      "a", "b", "c", "d", "e", "f", "g", "h", "i", "j", "k", "l", "m",
      "n", "o", "p", "q", "r", "s", "t", "u", "v", "w", "x", "y", "z", "°">>

\* Rank of a character in code point order (what str comparison compares).
Code(c) == CHOOSE i \in 1..Len(Alphabet) : Alphabet[i] = c

\* a < b for Python str: lexicographic by code point, a proper prefix first.
StrLess(a, b) ==
    \E i \in 1..Len(b) :
        /\ i - 1 <= Len(a)
        /\ \A j \in 1..(i - 1) : a[j] = b[j]
        /\ (i > Len(a) \/ Code(a[i]) < Code(b[i]))

RECURSIVE sorted(_)
\* sorted(S) for a set of str.
sorted(S) ==
    IF S = {} THEN <<>>
    ELSE LET m == CHOOSE x \in S : \A y \in S \ {x} : StrLess(x, y)
         IN  <<m>> \o sorted(S \ {m})

\* s[:n]
Prefix(s, n) == SubSeq(s, 1, Min(n, Len(s)))

RECURSIVE Digits(_)
\* str(n) for n >= 0
Digits(n) ==
    LET d == <<"0", "1", "2", "3", "4", "5", "6", "7", "8", "9">>
    IN  IF n < 10 THEN <<d[n + 1]>> ELSE Digits(n \div 10) \o <<d[(n % 10) + 1]>>

RECURSIVE Product(_)
Product(s) == IF s = <<>> THEN 1 ELSE s[1] * Product(Tail(s))

Range(s) == {s[i] : i \in 1..Len(s)}

\* s[i:] for a 1-based i
From(s, i) == SubSeq(s, i, Len(s))

\* s.startswith(pat)
StartsWith(s, pat) == Len(pat) <= Len(s) /\ SubSeq(s, 1, Len(pat)) = pat

\* pat in s
Contains(s, pat) == \E i \in 1..(Len(s) - Len(pat) + 1) : StartsWith(From(s, i), pat)

RECURSIVE Replace(_, _)
\* s.replace(pat, "") and re.sub of a literal pattern: the occurrences of
\* pat, leftmost first and not overlapping, are removed
Replace(s, pat) ==
    IF s = <<>> \/ pat = <<>> THEN s
    ELSE IF StartsWith(s, pat) THEN Replace(From(s, Len(pat) + 1), pat)
    ELSE <<s[1]>> \o Replace(Tail(s), pat)

RECURSIVE LStrip(_)
LStrip(s) == IF s # <<>> /\ s[1] = " " THEN LStrip(Tail(s)) ELSE s

RECURSIVE RStrip(_)
RStrip(s) == IF s # <<>> /\ s[Len(s)] = " " THEN RStrip(SubSeq(s, 1, Len(s) - 1)) ELSE s

\* s.strip()
Strip(s) == RStrip(LStrip(s))

\* The index of the last occurrence of c in s, 0 if there is none.
LastIndex(s, c) ==
    IF \E i \in 1..Len(s) : s[i] = c
    THEN CHOOSE i \in 1..Len(s) : s[i] = c /\ \A j \in (i + 1)..Len(s) : s[j] # c
    ELSE 0

-----------------------------------------------------------------------------
(* JSON values *)

Str(s) == [k |-> "str", s |-> s, n |-> 0, l |-> <<>>, d |-> <<>>]

Num(n) == [k |-> "num", s |-> <<>>, n |-> n, l |-> <<>>, d |-> <<>>]

Null == [k |-> "null", s |-> <<>>, n |-> 0, l |-> <<>>, d |-> <<>>]

\* A list: the sequence of its items.
List(xs) == [k |-> "list", s |-> <<>>, n |-> 0, l |-> xs, d |-> <<>>]

\* A dictionary: the sequence of its <<key, value>> pairs in insertion order.
Dict(pairs) == [k |-> "dict", s |-> <<>>, n |-> 0, l |-> <<>>, d |-> pairs]

EmptyMap == <<>>

IsList(x) == x.k = "list"

IsDict(x) == x.k = "dict"

IsStr(x) == x.k = "str"

\* set(x.keys())
DKeys(x) == {x.d[i][1] : i \in 1..Len(x.d)}

\* x[key]
DGet(x, key) == x.d[CHOOSE i \in 1..Len(x.d) : x.d[i][1] = key][2]

\* isinstance(v, list) and len(v) > 0 and all(isinstance(x, dict) for x in v)
NonEmptyListOfDicts(x) ==
    /\ IsList(x)
    /\ Len(x.l) > 0
    /\ \A i \in 1..Len(x.l) : IsDict(x.l[i])

\* d.get(key, default)
Get(d, key, default) == IF key \in DOMAIN d THEN d[key] ELSE default

\* d[key] = val
Put(d, key, val) == (key :> val) @@ d

-----------------------------------------------------------------------------
(* JsonAnalyzer *)

\* analyzer.py 366-375: keep the maximum at each level, then the extra levels
MergeDimensions(sub_dimensions, item_dimensions) ==
    IF sub_dimensions = <<>> THEN item_dimensions
    ELSE [i \in 1..Max(Len(sub_dimensions), Len(item_dimensions)) |->
            IF i <= Len(sub_dimensions) /\ i <= Len(item_dimensions)
            THEN Max(sub_dimensions[i], item_dimensions[i])
            ELSE IF i <= Len(sub_dimensions) THEN sub_dimensions[i]
            ELSE item_dimensions[i]]

RECURSIVE analyze_list_depth(_, _)
RECURSIVE analyze_list_items(_, _, _, _, _)

\* The loop of _analyze_list_depth over the items of a list with nested lists.
analyze_list_items(items, i, current_depth, max_depth, sub_dimensions) ==
    IF i > Len(items) THEN [depth |-> max_depth, dims |-> sub_dimensions]
    ELSE IF IsList(items[i])
    THEN LET r == analyze_list_depth(items[i], current_depth + 1)
         IN  analyze_list_items(items, i + 1, current_depth,
                                Max(max_depth, r.depth),
                                MergeDimensions(sub_dimensions, r.dims))
    ELSE analyze_list_items(items, i + 1, current_depth, max_depth, sub_dimensions)

\* JsonAnalyzer._analyze_list_depth: (max_depth, dimensions, is_nested)
analyze_list_depth(value, current_depth) ==
    IF ~IsList(value)
    THEN [depth |-> current_depth, dims |-> <<>>, nested |-> current_depth > 1]
    ELSE IF Len(value.l) = 0
    THEN [depth |-> current_depth, dims |-> <<0>>, nested |-> current_depth > 1]
    ELSE IF \E i \in 1..Len(value.l) : IsList(value.l[i])
    THEN LET r == analyze_list_items(value.l, 1, current_depth, current_depth, <<>>)
         IN  [depth |-> r.depth, dims |-> <<Len(value.l)>> \o r.dims, nested |-> TRUE]
    ELSE [depth |-> current_depth + 1, dims |-> <<Len(value.l)>>,
          nested |-> current_depth > 0]

\* JsonAnalyzer._is_multilevel_key_value
is_multilevel_key_value(value) ==
    IF NonEmptyListOfDicts(value)
    THEN \E i \in 1..Len(value.l) : \E key \in DKeys(value.l[i]) :
            LET v == DGet(value.l[i], key) IN IsDict(v) \/ NonEmptyListOfDicts(v)
    ELSE IF IsDict(value)
    THEN \E key \in DKeys(value) : NonEmptyListOfDicts(DGet(value, key))
    ELSE FALSE

\* The union of the keys of the dictionaries of a list.
KeysOfItems(items) == UNION {DKeys(items[i]) : i \in 1..Len(items)}

\* level2_keys of _analyze_multilevel_key_value for a list of dictionaries
Level2OfList(items) ==
    LET at(i, key) == DGet(items[i], key)
        parents == {key \in KeysOfItems(items) :
                      \E i \in 1..Len(items) :
                         /\ key \in DKeys(items[i])
                         /\ IsDict(at(i, key)) \/ NonEmptyListOfDicts(at(i, key))}
        sub(key) == UNION {IF key \notin DKeys(items[i]) THEN {}
                           ELSE IF IsDict(at(i, key)) THEN DKeys(at(i, key))
                           ELSE IF NonEmptyListOfDicts(at(i, key))
                           THEN KeysOfItems(at(i, key).l)
                           ELSE {} : i \in 1..Len(items)}
    IN  [key \in parents |-> sub(key)]

\* level2_keys of _analyze_multilevel_key_value for a dictionary
Level2OfDict(value) ==
    [key \in {x \in DKeys(value) : NonEmptyListOfDicts(DGet(value, x))} |->
        KeysOfItems(DGet(value, key).l)]

\* level_info[2] and max_level, analyzer.py 222-231 and 255-264
WithLevel2(level1, level2_keys, structure_type) ==
    IF DOMAIN level2_keys # {}
    THEN [is_multilevel |-> TRUE, max_level |-> 2, structure_type |-> structure_type,
          level_info |-> <<level1,
                           [parent_keys |-> sorted(DOMAIN level2_keys),
                            key_mapping |-> [key \in DOMAIN level2_keys |->
                                               sorted(level2_keys[key])]]>>]
    ELSE [is_multilevel |-> TRUE, max_level |-> 1, structure_type |-> structure_type,
          level_info |-> <<level1>>]

\* JsonAnalyzer._analyze_multilevel_key_value
analyze_multilevel_key_value(value) ==
    IF NonEmptyListOfDicts(value)
    THEN LET level1_keys == KeysOfItems(value.l)
         IN  WithLevel2([unique_keys |-> sorted(level1_keys),
                         has_consistent_keys |->
                            \A i \in 1..Len(value.l) : DKeys(value.l[i]) = level1_keys],
                        Level2OfList(value.l), "list_of_dicts")
    ELSE IF IsDict(value)
    THEN WithLevel2([unique_keys |-> sorted(DKeys(value))],
                    Level2OfDict(value), "dict_of_lists")
    ELSE [is_multilevel |-> FALSE, max_level |-> 0, structure_type |-> "None",
          level_info |-> <<>>]

\* JsonAnalyzer._is_key_value_list
is_key_value_list(value) == NonEmptyListOfDicts(value)

\* JsonAnalyzer._analyze_key_value_list
analyze_key_value_list(value) ==
    LET unique_keys == KeysOfItems(value.l)
        has_consistent_keys ==
            \A i \in 1..Len(value.l) : DKeys(value.l[i]) = unique_keys
    IN  [is_kv_list |-> has_consistent_keys,
         unique_keys |-> sorted(unique_keys),
         item_count |-> Len(value.l),
         has_consistent_keys |-> has_consistent_keys]

\* structure_info as analyze_json_structure creates it
EmptyStructure ==
    [keys |-> {}, nesting_depth |-> EmptyMap, nesting_structure |-> EmptyMap,
     needs_subtitles |-> FALSE, kv_lists |-> EmptyMap, multilevel_kv |-> EmptyMap]

\* analyzer.py 115-135: the analysis of a field as a regular nested list
AnalyzeRegular(info, key, value) ==
    LET r == analyze_list_depth(value, 0)
    IN  IF r.depth > 0
        THEN LET deeper == r.depth > Get(info.nesting_depth, key, 0)
                 a == IF deeper
                      THEN [info EXCEPT
                              !.nesting_depth = Put(@, key, r.depth),
                              !.nesting_structure = Put(@, key, r.dims)]
                      ELSE info
             IN  IF r.nested \/ r.dims[1] > 1
                 THEN [a EXCEPT !.needs_subtitles = TRUE]
                 ELSE a
        ELSE IF key \notin DOMAIN info.nesting_depth
        THEN [info EXCEPT !.nesting_depth = Put(@, key, 0),
                          !.nesting_structure = Put(@, key, <<>>)]
        ELSE info

\* analyzer.py 64-135: one iteration of the loop over the fields of a report.
\* The result is [err, info]; err names the exception raised, "" if none.
AnalyzeField(info0, key, value) ==
    LET info == [info0 EXCEPT !.keys = @ \cup {key}]
        ml == analyze_multilevel_key_value(value)
        kv == analyze_key_value_list(value)
    IN  IF is_multilevel_key_value(value)
        THEN IF ml.is_multilevel
             THEN IF \E level \in 1..ml.max_level :
                        /\ level \in DOMAIN ml.level_info
                        /\ "unique_keys" \notin DOMAIN ml.level_info[level]
                  THEN [err |-> "KeyError: unique_keys", info |-> info]
                  ELSE [err |-> "",
                        info |-> [info EXCEPT
                           !.multilevel_kv = Put(@, key, ml),
                           !.needs_subtitles = TRUE,
                           !.nesting_depth = Put(@, key, ml.max_level),
                           !.nesting_structure = Put(@, key,
                               [level \in 1..ml.max_level |->
                                   IF level \in DOMAIN ml.level_info
                                   THEN Len(ml.level_info[level].unique_keys)
                                   ELSE 1])]]
             ELSE [err |-> "", info |-> AnalyzeRegular(info, key, value)]
        ELSE IF is_key_value_list(value) /\ kv.is_kv_list
        THEN [err |-> "",
              info |-> [info EXCEPT
                 !.kv_lists = Put(@, key, kv),
                 !.needs_subtitles = TRUE,
                 !.nesting_depth = Put(@, key, 1),
                 !.nesting_structure = Put(@, key, <<Len(kv.unique_keys)>>)]]
        ELSE [err |-> "", info |-> AnalyzeRegular(info, key, value)]

KeyFields == <<"f", "i", "e", "l", "d", "s">>

KeyTitle == <<"t", "i", "t", "l", "e">>

\* The fields of a report: its 'fields' entry, else the report itself;
\* an empty dictionary for a report that is not a dictionary.
FieldsOf(report) ==
    IF ~IsDict(report) THEN Dict(<<>>)
    ELSE IF KeyFields \in DKeys(report) THEN DGet(report, KeyFields)
    ELSE report

RECURSIVE AnalyzeFields(_, _)
\* The loop of analyze_json_structure over fields.items(); it ends at the
\* first exception.
AnalyzeFields(acc, todo) ==
    IF todo = <<>> \/ acc.err # "" THEN acc
    ELSE AnalyzeFields(AnalyzeField(acc.info, todo[1][1], todo[1][2]), Tail(todo))

RECURSIVE AnalyzeReports(_, _)
\* The loop of analyze_json_structure over data_list
AnalyzeReports(acc, data_list) ==
    IF data_list = <<>> \/ acc.err # "" THEN acc
    ELSE AnalyzeReports(AnalyzeFields(acc, FieldsOf(data_list[1]).d), Tail(data_list))

\* JsonAnalyzer.analyze_json_structure
analyze_json_structure(json_data) ==
    AnalyzeReports([err |-> "", info |-> EmptyStructure],
                   IF IsList(json_data) THEN json_data.l ELSE <<json_data>>)

-----------------------------------------------------------------------------
(* ExcelGenerator.create_excel_file, pass 1 *)

MaxSheetNameLength == 31

InvalidSheetChars == {"\\", "/", ":", "*", "?", "[", "]"}

\* ExcelFormatter.sanitize_sheet_name
sanitize_sheet_name(sheet_name) ==
    Prefix(SelectSeq(sheet_name, LAMBDA c : c \notin InvalidSheetChars),
           MaxSheetNameLength)

\* file_json_data if isinstance(file_json_data, list) else [file_json_data]
ReportsOfFile(file_json_data) ==
    IF IsList(file_json_data) THEN file_json_data.l ELSE <<file_json_data>>

RECURSIVE ReportsFrom(_, _)
\* The reports of files i.. in encounter order, each with its file's name
\* and its index in the file.
ReportsFrom(files, i) ==
    IF i > Len(files) THEN <<>>
    ELSE LET rs == ReportsOfFile(files[i].data)
         IN  [j \in 1..Len(rs) |->
                 [file_name |-> files[i].name, report_index |-> j - 1, report |-> rs[j]]]
             \o ReportsFrom(files, i + 1)

AllReports == ReportsFrom(all_json_data, 1)

\* report.get('title', None) of a dictionary, None otherwise
TitleOf(report) ==
    IF IsDict(report) /\ KeyTitle \in DKeys(report) THEN DGet(report, KeyTitle) ELSE Null

ReportPrefix == <<"R", "e", "p", "o", "r", "t", "_">>

\* generator.py 57-66: the sheet key of a report in pass 1
Pass1SafeTitle(r) ==
    LET title == TitleOf(r.report)
    IN  sanitize_sheet_name(IF title.k = "null" THEN ReportPrefix \o r.file_name
                            ELSE title.s)

\* a merge that adds the depth of a field to the depth already recorded
MergeStructureAdding(existing, this_structure) ==
    [existing EXCEPT
       !.keys = @ \cup this_structure.keys,
       !.nesting_depth =
           [key \in DOMAIN @ \cup DOMAIN this_structure.nesting_depth |->
               Get(@, key, 0) + Get(this_structure.nesting_depth, key, 0)],
       !.nesting_structure =
           [key \in DOMAIN @ \cup DOMAIN this_structure.nesting_depth |->
               Get(this_structure.nesting_structure, key, Get(@, key, <<>>))],
       !.needs_subtitles = @ \/ this_structure.needs_subtitles]

\* generator.py 75-89: merge this_structure into the entry of the sheet
MergeStructure(existing, this_structure) ==
    LET deeper == {key \in DOMAIN this_structure.nesting_depth :
                      \/ key \notin DOMAIN existing.nesting_depth
                      \/ this_structure.nesting_depth[key] > existing.nesting_depth[key]}
    IN  [existing EXCEPT
           !.keys = @ \cup this_structure.keys,
           !.nesting_depth =
               [key \in DOMAIN @ \cup deeper |->
                   IF key \in deeper THEN this_structure.nesting_depth[key] ELSE @[key]],
           !.nesting_structure =
               [key \in DOMAIN @ \cup deeper |->
                   IF key \in deeper THEN Get(this_structure.nesting_structure, key, <<>>)
                   ELSE @[key]],
           !.needs_subtitles = @ \/ this_structure.needs_subtitles]

\* generator.py 72-89: all_structure_info after this_structure of a report
\* with sheet key safe_title
Accumulate(table, safe_title, this_structure) ==
    IF safe_title \notin DOMAIN table
    THEN Put(table, safe_title, this_structure)
    ELSE Put(table, safe_title, MergeStructure(table[safe_title], this_structure))

\* generator.py 56-89: one iteration of the first pass
Pass1Step ==
    /\ pc = "pass1"
    /\ cursor <= Len(AllReports)
    /\ LET r == AllReports[cursor]
           safe_title == Pass1SafeTitle(r)
           this == analyze_json_structure(List(<<r.report>>))
       IN  IF this.err # ""
           THEN /\ pc' = "failed"
                /\ error' = this.err
                /\ UNCHANGED <<cursor, all_structure_info, pass1_keys>>
           ELSE /\ all_structure_info' = Accumulate(all_structure_info, safe_title, this.info)
                /\ pass1_keys' = Append(pass1_keys, safe_title)
                /\ cursor' = cursor + 1
                /\ UNCHANGED <<pc, error>>
    /\ UNCHANGED <<headers_written, all_json_data, filter_text, apply_value_filters, worksheets,
                   total_reports_processed, pass2_keys, saved, arg, out>>

\* generator.py 91-103: the first loop is over, the second starts
Pass1End ==
    /\ pc = "pass1"
    /\ cursor > Len(AllReports)
    /\ pc' = "pass2"
    /\ cursor' = 1
    /\ UNCHANGED <<headers_written, all_json_data, filter_text, apply_value_filters, all_structure_info, worksheets,
                   total_reports_processed, pass1_keys, pass2_keys, error, saved,
                   arg, out>>

-----------------------------------------------------------------------------
(* TextFilter and FileUtils *)

Letters ==
    {"A", "B", "C", "D", "E", "F", "G", "H", "I", "J", "K", "L", "M",
     "N", "O", "P", "Q", "R", "S", "T", "U", "V", "W", "X", "Y", "Z",
     "a", "b", "c", "d", "e", "f", "g", "h", "i", "j", "k", "l", "m",
     "n", "o", "p", "q", "r", "s", "t", "u", "v", "w", "x", "y", "z"}

DigitChars == {"0", "1", "2", "3", "4", "5", "6", "7", "8", "9"}

\* the characters \w matches
WordChars == Letters \cup DigitChars \cup {"_"}

\* The length of the match of \[\w+\] at the start of s, 0 if there is none.
BracketWordMatch(s) ==
    IF Len(s) >= 3 /\ s[1] = "["
    THEN LET stop == CHOOSE i \in 2..(Len(s) + 1) :
                        /\ i = Len(s) + 1 \/ s[i] \notin WordChars
                        /\ \A j \in 2..(i - 1) : s[j] \in WordChars
         IN  IF stop > 2 /\ stop <= Len(s) /\ s[stop] = "]" THEN stop ELSE 0
    ELSE 0

RECURSIVE RemoveBracketWords(_)
\* re.sub(r"\[\w+\]", "", s)
RemoveBracketWords(s) ==
    IF s = <<>> THEN s
    ELSE IF BracketWordMatch(s) > 0 THEN RemoveBracketWords(From(s, BracketWordMatch(s) + 1))
    ELSE <<s[1]>> \o RemoveBracketWords(Tail(s))

\* The literal unit patterns before and after the catch-all, text_filters.py 30-51
UnitsBefore ==
    << <<"[", "m", "s", "]">>, <<"[", "s", "]">>, <<"[", "V", "]">>,
       <<"[", "m", "V", "]">>, <<"[", "A", "]">>, <<"[", "m", "A", "]">>,
       <<"[", "H", "z", "]">>, <<"[", "k", "H", "z", "]">>, <<"[", "M", "H", "z", "]">>,
       <<"[", "°", "C", "]">>, <<"[", "m", "m", "]">>, <<"[", "c", "m", "]">>,
       <<"[", "m", "]">> >>

UnitsAfter ==
    << <<"+", "/", "-">>, <<"V", "a", "c">>, <<"V", "d", "c">>, <<"m", "A">>,
       <<"M", " ", "O", "h", "m">>, <<"O", "h", "m">> >>

RECURSIVE RemoveAll(_, _)
\* the loop over unit_patterns for literal patterns
RemoveAll(s, patterns) ==
    IF patterns = <<>> THEN s ELSE RemoveAll(Replace(s, patterns[1]), Tail(patterns))

\* TextFilter.remove_units on the characters of a str
remove_units(text) ==
    Strip(RemoveAll(RemoveBracketWords(RemoveAll(text, UnitsBefore)), UnitsAfter))

\* os.path.splitext(filename)[0]
SplitextRoot(filename) ==
    LET sep == LastIndex(filename, "/")
        dot == LastIndex(filename, ".")
    IN  IF dot > sep /\ \E i \in (sep + 1)..(dot - 1) : filename[i] # "."
        THEN SubSeq(filename, 1, dot - 1)
        ELSE filename

\* FileUtils.process_filename
process_filename(filename, filter) ==
    LET display_filename == SplitextRoot(filename)
    IN  IF filter # <<>> /\ Contains(display_filename, filter)
        THEN Strip(Replace(display_filename, filter))
        ELSE display_filename

-----------------------------------------------------------------------------
(* Worksheets: the cells written so far and the merged ranges *)

EmptySheet == [cells |-> EmptyMap, merged |-> {}, err |-> ""]

EmptyStr == Str(<<>>)

\* worksheet.cell(row=row, column=col, value=value): the cell is created,
\* and its value set unless value is None; openpyxl raises ValueError for a
\* list or a dictionary.  Nothing is written after an exception.
WriteCell(sheet, row, col, value) ==
    IF sheet.err # "" THEN sheet
    ELSE IF value.k \in {"list", "dict"}
    THEN [sheet EXCEPT !.err = "ValueError: Cannot convert to Excel"]
    ELSE [sheet EXCEPT !.cells =
            IF value.k = "null"
            THEN (IF <<row, col>> \in DOMAIN @ THEN @ ELSE Put(@, <<row, col>>, Null))
            ELSE Put(@, <<row, col>>, value)]

\* worksheet.cell(..., value="") for every cell of a set
WriteBlank(sheet, where) ==
    IF sheet.err # "" THEN sheet
    ELSE [sheet EXCEPT !.cells =
            [x \in DOMAIN @ \cup where |-> IF x \in where THEN EmptyStr ELSE @[x]]]

\* worksheet.merge_cells on one row
MergeCells(sheet, row, start_column, end_column) ==
    [sheet EXCEPT !.merged = @ \cup {<<row, start_column, end_column>>}]

SetMax(S) == IF S = {} THEN 0 ELSE CHOOSE x \in S : \A y \in S : y <= x

-----------------------------------------------------------------------------
(* ExcelFormatter *)

RECURSIVE ProductFloored(_)
ProductFloored(dimensions) ==
    IF dimensions = <<>> THEN 1
    ELSE Max(1, dimensions[1]) * ProductFloored(Tail(dimensions))

\* ExcelFormatter._calculate_total_columns
calculate_total_columns(dimensions) == ProductFloored(dimensions)

\* formatter.py 61-66 and generator.py 176-181
MaxNestingLevel(structure_info) ==
    SetMax({structure_info.nesting_depth[key] :
               key \in structure_info.keys \cap DOMAIN structure_info.nesting_depth})

\* path.split('.')[-1]
LastPart(path) == From(path, LastIndex(path, ".") + 1)

\* a label whose index starts at 0
SubtitleLabelFromZero(prefix, i) == prefix \o <<" ", "-", " ", "#">> \o Digits(i)

SubtitleLabel(prefix, i) == prefix \o <<" ", "-", " ", "#">> \o Digits(i + 1)

RECURSIVE create_subtitles(_, _, _, _, _, _, _)
RECURSIVE SubtitleItems(_, _, _, _, _, _, _, _, _)

\* the loop "for i in range(dim)" of create_subtitles; c holds key,
\* dimensions and max_rows of _create_hierarchical_subtitles
SubtitleItems(sheet, c, level, prefix, col_start, item_span, row, dim, i) ==
    IF i >= dim THEN sheet
    ELSE LET item_start == col_start + (i * item_span)
             item_end == item_start + item_span - 1
             subtitle == SubtitleLabel(IF prefix # <<>> THEN prefix ELSE c.key, i)
             s1 == WriteCell(sheet, row, item_start, Str(subtitle))
             s2 == IF item_span > 1 THEN MergeCells(s1, row, item_start, item_end) ELSE s1
             s3 == IF level < Len(c.dimensions) - 1
                   THEN create_subtitles(s2, c, level + 1, subtitle, item_start,
                                         item_span, row + 1)
                   ELSE s2
         IN  SubtitleItems(s3, c, level, prefix, col_start, item_span, row, dim, i + 1)

\* create_subtitles of ExcelFormatter._create_hierarchical_subtitles
create_subtitles(sheet, c, level, prefix, col_start, col_span, row) ==
    IF level >= Len(c.dimensions) \/ row > c.max_rows + 1 THEN sheet
    ELSE LET dim == IF c.dimensions[level + 1] <= 0 THEN 1 ELSE c.dimensions[level + 1]
         IN  SubtitleItems(sheet, c, level, prefix, col_start, col_span \div dim,
                           row, dim, 0)

\* ExcelFormatter._create_hierarchical_subtitles
create_hierarchical_subtitles(sheet, key, start_column, dimensions, start_row, max_rows) ==
    IF dimensions = <<>> THEN sheet
    ELSE create_subtitles(sheet,
                          [key |-> key, dimensions |-> dimensions, max_rows |-> max_rows],
                          0, <<>>, start_column,
                          calculate_total_columns(dimensions), start_row)

\* kv_list_info.get('nested_structure', {})
NestedStructureOf(kv_list_info) ==
    IF "nested_structure" \in DOMAIN kv_list_info THEN kv_list_info.nested_structure
    ELSE EmptyMap

RECURSIVE NestedKeyHeaders(_, _, _, _, _)
\* formatter.py 444-496: the loop over unique_keys; the result is the sheet
\* and the next column
NestedKeyHeaders(sheet, kv_list_info, todo, current_column, num_subtitle_rows) ==
    IF todo = <<>> THEN [sheet |-> sheet, col |-> current_column]
    ELSE LET key == todo[1]
             nested_structure == NestedStructureOf(kv_list_info)
             path_keys == nested_structure[key].paths
             n == Len(path_keys)
             a1 == WriteCell(sheet, 2, current_column, Str(key))
             a2 == IF n > 1 THEN MergeCells(a1, 2, current_column, current_column + n - 1)
                   ELSE a1
             a3 == [a2 EXCEPT !.cells =
                      [x \in DOMAIN @ \cup ((3..(1 + num_subtitle_rows))
                                               \X (current_column..(current_column + n - 1))
                                             \cup ({3} \X (current_column..(current_column + n - 1))))
                         |-> IF x[2] \in current_column..(current_column + n - 1) /\ x[1] = 3
                             THEN Str(LastPart(path_keys[x[2] - current_column + 1]))
                             ELSE IF x[2] \in current_column..(current_column + n - 1)
                                     /\ x[1] \in 4..(1 + num_subtitle_rows)
                             THEN EmptyStr
                             ELSE @[x]]]
             b1 == WriteBlank(WriteCell(sheet, 2, current_column, Str(key)),
                              (3..(1 + num_subtitle_rows)) \X {current_column})
         IN  IF key \in DOMAIN nested_structure
             THEN NestedKeyHeaders(a3, kv_list_info, Tail(todo), current_column + n,
                                   num_subtitle_rows)
             ELSE NestedKeyHeaders(b1, kv_list_info, Tail(todo), current_column + 1,
                                   num_subtitle_rows)

\* ExcelFormatter._setup_key_value_list_headers_with_nesting (formatter.py 417)
setup_key_value_list_headers_with_nesting(sheet, start_column, parent_key, kv_list_info, num_subtitle_rows) ==
    LET h == WriteCell(sheet, 1, start_column, Str(parent_key))
        r == NestedKeyHeaders(h, kv_list_info, kv_list_info.unique_keys, start_column,
                              num_subtitle_rows)
        total_columns == r.col - start_column
    IN  [err |-> "",
         sheet |-> IF total_columns > 1
                   THEN MergeCells(r.sheet, 1, start_column, start_column + total_columns - 1)
                   ELSE r.sheet,
         col |-> r.col]

\* ExcelFormatter._setup_key_value_list_headers (formatter.py 511, the
\* definition in force)
setup_key_value_list_headers(sheet, start_column, parent_key, kv_list_info, num_subtitle_rows) ==
    LET unique_keys == kv_list_info.unique_keys
        total_columns == Len(unique_keys)
        h == WriteCell(sheet, 1, start_column, Str(parent_key))
        cols == start_column..(start_column + total_columns - 1)
        many == [MergeCells(h, 1, start_column, start_column + total_columns - 1)
                   EXCEPT !.cells =
                      [x \in DOMAIN @ \cup ((2..(1 + num_subtitle_rows)) \X cols)
                                      \cup ({2} \X cols) |->
                          IF x[2] \in cols /\ x[1] = 2
                          THEN Str(unique_keys[x[2] - start_column + 1])
                          ELSE IF x[2] \in cols /\ x[1] \in 3..(1 + num_subtitle_rows)
                          THEN EmptyStr
                          ELSE @[x]]]
        one == WriteBlank(WriteCell(h, 2, start_column, Str(unique_keys[1])),
                          (3..(1 + num_subtitle_rows)) \X {start_column})
    IN  IF NestedStructureOf(kv_list_info) # EmptyMap
        THEN setup_key_value_list_headers_with_nesting(sheet, start_column, parent_key,
                                                       kv_list_info, num_subtitle_rows)
        ELSE IF total_columns > 1
        THEN [err |-> "", sheet |-> many, col |-> start_column + total_columns]
        ELSE IF num_subtitle_rows > 0
        THEN IF unique_keys = <<>>
             THEN [err |-> "IndexError: list index out of range", sheet |-> h,
                   col |-> start_column]
             ELSE [err |-> "", sheet |-> one, col |-> start_column + total_columns]
        ELSE [err |-> "", sheet |-> h, col |-> start_column + total_columns]

\* formatter.py 88-132: the header of a field that is no key-value list
RegularFieldHeaders(sheet, structure_info, key, current_column, num_subtitle_rows) ==
    LET nesting_structure == Get(structure_info.nesting_structure, key, <<>>)
        total_columns == calculate_total_columns(nesting_structure)
        h == WriteCell(sheet, 1, current_column, Str(key))
    IN  IF total_columns > 1
        THEN [err |-> "",
              sheet |-> create_hierarchical_subtitles(
                            MergeCells(h, 1, current_column,
                                       current_column + total_columns - 1),
                            key, current_column, nesting_structure, 2, num_subtitle_rows),
              col |-> current_column + total_columns]
        ELSE [err |-> "",
              sheet |-> IF structure_info.needs_subtitles
                        THEN WriteBlank(h, (2..(1 + num_subtitle_rows)) \X {current_column})
                        ELSE h,
              col |-> current_column + 1]

\* formatter.py 76-132: the body of the loop for one key: the sheet and the
\* column pointer after it
FieldHeader(sheet, structure_info, key, current_column, num_subtitle_rows) ==
    IF key \in DOMAIN structure_info.kv_lists
    THEN setup_key_value_list_headers(sheet, current_column, key,
                                      structure_info.kv_lists[key], num_subtitle_rows)
    ELSE RegularFieldHeaders(sheet, structure_info, key, current_column,
                             num_subtitle_rows)

RECURSIVE FieldHeaders(_, _, _, _, _)
\* formatter.py 75-132: the loop over sorted(structure_info['keys']); it
\* ends at the first exception
FieldHeaders(sheet, structure_info, todo, current_column, num_subtitle_rows) ==
    IF todo = <<>> THEN [err |-> "", sheet |-> sheet, col |-> current_column]
    ELSE LET r == FieldHeader(sheet, structure_info, todo[1], current_column,
                              num_subtitle_rows)
         IN  IF r.err # "" THEN r
             ELSE FieldHeaders(r.sheet, structure_info, Tail(todo), r.col,
                               num_subtitle_rows)

FileNameHeader == <<"F", "i", "l", "e", " ", "N", "a", "m", "e">>

\* setup_headers going through the keys in descending order
setup_headers_descending(worksheet, structure_info) ==
    LET num_subtitle_rows == MaxNestingLevel(structure_info)
        keys == sorted(structure_info.keys)
        first == WriteBlank(WriteCell(worksheet, 1, 1, Str(FileNameHeader)),
                            (2..(1 + num_subtitle_rows)) \X {1})
    IN  FieldHeaders(first, structure_info,
                     [i \in 1..Len(keys) |-> keys[Len(keys) + 1 - i]], 2,
                     num_subtitle_rows)

\* ExcelFormatter.setup_headers: [err, sheet, col]
setup_headers(worksheet, structure_info) ==
    LET num_subtitle_rows == MaxNestingLevel(structure_info)
        first == WriteBlank(WriteCell(worksheet, 1, 1, Str(FileNameHeader)),
                            (2..(1 + num_subtitle_rows)) \X {1})
    IN  FieldHeaders(first, structure_info, sorted(structure_info.keys), 2,
                     num_subtitle_rows)

\* the width get_column_count gives a field, formatter.py 276-286
CountedWidth(structure_info, key) ==
    IF key \in DOMAIN structure_info.kv_lists
    THEN Len(structure_info.kv_lists[key].unique_keys)
    ELSE IF Get(structure_info.nesting_structure, key, <<>>) # <<>>
    THEN calculate_total_columns(structure_info.nesting_structure[key])
    ELSE 1

RECURSIVE SumWidths(_, _)
SumWidths(structure_info, keys) ==
    IF keys = {} THEN 0
    ELSE LET key == CHOOSE x \in keys : TRUE
         IN  CountedWidth(structure_info, key) + SumWidths(structure_info, keys \ {key})

\* ExcelFormatter.get_column_count
get_column_count(structure_info) == 1 + SumWidths(structure_info, structure_info.keys)

-----------------------------------------------------------------------------
(* ExcelDataWriter *)

\* _calculate_total_columns of the writer without the floor max(1, dim)
writer_total_columns_unfloored(dimensions) == Product(dimensions)

\* ExcelDataWriter._calculate_total_columns
writer_calculate_total_columns(dimensions) == ProductFloored(dimensions)

\* "if apply_value_filters and isinstance(v, str): v = TextFilter.remove_units(v)"
Filtered(value, apply) ==
    IF apply /\ IsStr(value) THEN Str(remove_units(value.s)) ELSE value

RECURSIVE flatten_nested_list(_, _, _)
RECURSIVE FlattenItems(_, _, _, _)
RECURSIVE FlattenItemsUnpadded(_, _, _, _)

\* the loop of _flatten_nested_list without the blanks for missing items
FlattenItemsUnpadded(value, dimensions, current_dim, i) ==
    IF i >= dimensions[current_dim + 1] THEN <<>>
    ELSE (IF i < Len(value.l)
          THEN flatten_nested_list(value.l[i + 1], dimensions, current_dim + 1)
          ELSE <<>>)
         \o FlattenItemsUnpadded(value, dimensions, current_dim, i + 1)

\* the loop "for i in range(dim_size)" of _flatten_nested_list
FlattenItems(value, dimensions, current_dim, i) ==
    IF i >= dimensions[current_dim + 1] THEN <<>>
    ELSE LET empties_to_add ==
                 IF current_dim < Len(dimensions) - 1
                 THEN writer_calculate_total_columns(
                          SubSeq(dimensions, current_dim + 2, Len(dimensions)))
                 ELSE 1
         IN  (IF i < Len(value.l)
              THEN flatten_nested_list(value.l[i + 1], dimensions, current_dim + 1)
              ELSE [j \in 1..empties_to_add |-> EmptyStr])
             \o FlattenItems(value, dimensions, current_dim, i + 1)

\* ExcelDataWriter._flatten_nested_list: the values appended to result
flatten_nested_list(value, dimensions, current_dim) ==
    IF ~IsList(value) THEN <<value>>
    ELSE IF current_dim >= Len(dimensions)
    THEN (IF value.l # <<>> THEN <<value.l[1]>> ELSE <<EmptyStr>>)
    ELSE FlattenItems(value, dimensions, current_dim, 0)

RECURSIVE WriteSeq(_, _, _, _, _, _)
\* data_writer.py 162-167: the flattened values go to consecutive columns,
\* those beyond total_columns are dropped
WriteSeq(sheet, row_num, start_column, values, limit, apply) ==
    IF values = <<>> \/ limit <= 0 THEN sheet
    ELSE WriteSeq(WriteCell(sheet, row_num, start_column, Filtered(values[1], apply)),
                  row_num, start_column + 1, Tail(values), limit - 1, apply)

\* ExcelDataWriter._add_nested_data: the sheet and the number of columns used
add_nested_data(sheet, row_num, start_column, value, dimensions, apply) ==
    LET total_columns == writer_calculate_total_columns(dimensions)
        blank == WriteBlank(sheet,
                            {row_num} \X (start_column..(start_column + total_columns - 1)))
    IN  IF dimensions = <<>>
        THEN [sheet |-> WriteCell(sheet, row_num, start_column, Filtered(value, apply)),
              cols |-> 1]
        ELSE [sheet |-> WriteSeq(blank, row_num, start_column,
                                 flatten_nested_list(value, dimensions, 0),
                                 total_columns, apply),
              cols |-> total_columns]

\* result[key] = val on the pairs of a dictionary
DSet(pairs, key, val) ==
    IF \E i \in 1..Len(pairs) : pairs[i][1] = key
    THEN [i \in 1..Len(pairs) |-> IF pairs[i][1] = key THEN <<key, val>> ELSE pairs[i]]
    ELSE Append(pairs, <<key, val>>)

RECURSIVE flatten_object(_, _, _)
RECURSIVE FlattenEntries(_, _, _)

\* the loop over obj.items() of _flatten_object
FlattenEntries(entries, prefix, result) ==
    IF entries = <<>> THEN result
    ELSE LET path == IF prefix # <<>> THEN prefix \o <<".">> \o entries[1][1]
                     ELSE entries[1][1]
         IN  FlattenEntries(Tail(entries), prefix,
                 IF IsDict(entries[1][2]) THEN flatten_object(entries[1][2], path, result)
                 ELSE DSet(result, path, entries[1][2]))

\* ExcelDataWriter._flatten_object: the pairs of result
flatten_object(obj, prefix, result) ==
    IF ~IsDict(obj) THEN DSet(result, prefix, obj)
    ELSE FlattenEntries(obj.d, prefix, result)

\* the width of a key of a key-value list, data_writer.py 446-452
KvKeyWidth(kv_list_info, key) ==
    IF key \in DOMAIN NestedStructureOf(kv_list_info)
    THEN Len(NestedStructureOf(kv_list_info)[key].paths)
    ELSE 1

RECURSIVE KvTotalColumns(_, _)
KvTotalColumns(kv_list_info, keys) ==
    IF keys = <<>> THEN 0
    ELSE KvKeyWidth(kv_list_info, keys[1]) + KvTotalColumns(kv_list_info, Tail(keys))

RECURSIVE WritePaths(_, _, _, _, _, _)
\* data_writer.py 480-493: one cell for each path of a nested key
WritePaths(sheet, row_num, current_column, paths, flattened, apply) ==
    IF paths = <<>> THEN sheet
    ELSE LET prop_name == LastPart(paths[1])
             prop_value == IF prop_name \in DKeys(Dict(flattened))
                           THEN DGet(Dict(flattened), prop_name) ELSE EmptyStr
         IN  WritePaths(WriteCell(sheet, row_num, current_column, Filtered(prop_value, apply)),
                        row_num, current_column + 1, Tail(paths), flattened, apply)

RECURSIVE WriteKvKeys(_, _, _, _, _, _, _)
\* data_writer.py 470-510: the loop over ordered_keys
WriteKvKeys(sheet, row_num, current_column, todo, first_item, kv_list_info, apply) ==
    IF todo = <<>> THEN sheet
    ELSE LET key == todo[1]
             nested == key \in DOMAIN NestedStructureOf(kv_list_info)
             item_value == DGet(first_item, key)
             next == current_column + KvKeyWidth(kv_list_info, key)
             written ==
                 IF key \notin DKeys(first_item) THEN sheet
                 ELSE IF nested /\ IsDict(item_value)
                 THEN WritePaths(sheet, row_num, current_column,
                                 NestedStructureOf(kv_list_info)[key].paths,
                                 flatten_object(item_value, <<>>, <<>>), apply)
                 ELSE WriteCell(sheet, row_num, current_column, Filtered(item_value, apply))
         IN  WriteKvKeys(written, row_num,
                         IF key \in DKeys(first_item) /\ ~(nested /\ IsDict(item_value))
                         THEN current_column + 1 ELSE next,
                         Tail(todo), first_item, kv_list_info, apply)

\* ExcelDataWriter._add_key_value_list_data_with_nesting (data_writer.py 422,
\* the definition in force)
add_key_value_list_data_with_nesting(sheet, row_num, start_column, value, kv_list_info, apply) ==
    LET total_columns == KvTotalColumns(kv_list_info, kv_list_info.unique_keys)
        blank == WriteBlank(sheet,
                            {row_num} \X (start_column..(start_column + total_columns - 1)))
    IN  IF ~IsList(value) \/ value.l = <<>> \/ ~IsDict(value.l[1])
        THEN [sheet |-> blank, cols |-> total_columns]
        ELSE [sheet |-> WriteKvKeys(blank, row_num, start_column, kv_list_info.unique_keys,
                                    value.l[1], kv_list_info, apply),
              cols |-> total_columns]

\* data_writer.py 64-78: a field with a single value
add_single_value(sheet, row_num, current_column, value, apply) ==
    LET value_to_set == IF IsList(value) /\ value.l # <<>> THEN value.l[1] ELSE value
    IN  [sheet |-> WriteCell(sheet, row_num, current_column, Filtered(value_to_set, apply)),
         cols |-> 1]

\* data_writer.py 36-78: the body of the loop for one key: the sheet and the
\* column increment
AddField(sheet, row_num, current_column, key, value, structure_info, apply) ==
    IF key \in DOMAIN structure_info.kv_lists
    THEN add_key_value_list_data_with_nesting(sheet, row_num, current_column, value,
                                              structure_info.kv_lists[key], apply)
    ELSE IF Get(structure_info.nesting_structure, key, <<>>) # <<>>
    THEN add_nested_data(sheet, row_num, current_column, value,
                         structure_info.nesting_structure[key], apply)
    ELSE add_single_value(sheet, row_num, current_column, value, apply)

\* fields.get(key, "")
FieldValue(fields, key) == IF key \in DKeys(fields) THEN DGet(fields, key) ELSE EmptyStr

RECURSIVE AddFields(_, _, _, _, _, _, _)
\* data_writer.py 35-78: the loop over sorted(structure_info['keys'])
AddFields(sheet, row_num, current_column, todo, fields, structure_info, apply) ==
    IF todo = <<>> THEN sheet
    ELSE LET r == AddField(sheet, row_num, current_column, todo[1],
                           FieldValue(fields, todo[1]), structure_info, apply)
         IN  AddFields(r.sheet, row_num, current_column + r.cols, Tail(todo), fields,
                       structure_info, apply)

\* ExcelDataWriter.add_data_row
add_data_row(worksheet, row_num, file_name, fields, structure_info, filter, apply) ==
    AddFields(WriteCell(worksheet, row_num, 1, Str(process_filename(file_name, filter))),
              row_num, 2, sorted(structure_info.keys), fields, structure_info, apply)

-----------------------------------------------------------------------------
(* ExcelGenerator.create_excel_file, pass 2 *)

\* generator.py 142-157: the sheet key of a report in pass 2
Pass2SafeTitle(r) ==
    LET title == TitleOf(r.report)
    IN  sanitize_sheet_name(IF title.k = "null"
                            THEN ReportPrefix \o r.file_name \o <<"_">>
                                 \o Digits(r.report_index)
                            ELSE title.s)

\* generator.py 165-189 with line 181 ignoring the subtitle rows: the first
\* data row is row 2 whatever the header holds
NewWorksheetAtRowTwo(structure_info) ==
    LET h == setup_headers(EmptySheet, structure_info)
    IN  [err |-> h.err,
         headers |-> 1,
         info |-> [sheet |-> h.sheet,
                   next_row |-> 2,
                   structure_info |-> structure_info,
                   column_count |-> get_column_count(structure_info)]]

\* generator.py 165-189: the entry of a sheet at its first report
NewWorksheet(structure_info) ==
    LET h == setup_headers(EmptySheet, structure_info)
    IN  [err |-> h.err,
         headers |-> 1,
         info |-> [sheet |-> h.sheet,
                   next_row |-> 2 + MaxNestingLevel(structure_info),
                   structure_info |-> structure_info,
                   column_count |-> get_column_count(structure_info)]]

\* generator.py 159-189 without the test of line 159: the header setup runs
\* again on the sheet at every report of it
WorksheetForRepeating(safe_title) ==
    IF safe_title \notin DOMAIN all_structure_info
    THEN [err |-> "KeyError: safe_title", headers |-> 0, info |-> <<>>]
    ELSE IF safe_title \in DOMAIN worksheets
    THEN [err |-> "", headers |-> 1,
          info |-> [worksheets[safe_title] EXCEPT
                       !.sheet = setup_headers(@, all_structure_info[safe_title]).sheet]]
    ELSE NewWorksheet(all_structure_info[safe_title])

\* generator.py 159-189: the entry of the sheet of a report, created at the
\* sheet's first report from what the first pass recorded under the title
WorksheetFor(safe_title) ==
    IF safe_title \in DOMAIN worksheets
    THEN [err |-> "", headers |-> 0, info |-> worksheets[safe_title]]
    ELSE IF safe_title \notin DOMAIN all_structure_info
    THEN [err |-> "KeyError: safe_title", headers |-> 0, info |-> <<>>]
    ELSE NewWorksheet(all_structure_info[safe_title])

\* StoreRow without the way out of an exception of the row's rendering
StoreRowUnchecked(safe_title, ws, written) ==
    [pc |-> pc, error |-> error, cursor |-> cursor + 1, safe_title |-> safe_title,
     worksheets |-> Put(worksheets, safe_title,
                        [ws EXCEPT !.sheet = written, !.next_row = ws.next_row + 1])]

\* StoreRow of a renderer that marks the schema it has rendered a row with
StoreRowMarking(safe_title, ws, written) ==
    IF written.err # ""
    THEN [pc |-> "failed", error |-> written.err, cursor |-> cursor,
          safe_title |-> safe_title,
          worksheets |-> Put(worksheets, safe_title, [ws EXCEPT !.sheet = written])]
    ELSE [pc |-> pc, error |-> error, cursor |-> cursor + 1,
          safe_title |-> safe_title,
          worksheets |-> Put(worksheets, safe_title,
                             [ws EXCEPT !.sheet = written,
                                        !.next_row = ws.next_row + 1,
                                        !.structure_info.needs_subtitles = TRUE])]

\* generator.py 184-189, 216: the entry is stored at the sheet's creation and
\* its next_row advanced after the row is written
StoreRow(safe_title, ws, written) ==
    IF written.err # ""
    THEN [pc |-> "failed", error |-> written.err, cursor |-> cursor,
          safe_title |-> safe_title,
          worksheets |-> Put(worksheets, safe_title, [ws EXCEPT !.sheet = written])]
    ELSE [pc |-> pc, error |-> error, cursor |-> cursor + 1,
          safe_title |-> safe_title,
          worksheets |-> Put(worksheets, safe_title,
                             [ws EXCEPT !.sheet = written,
                                        !.next_row = ws.next_row + 1])]

\* generator.py 191-213: the report's fields are written as one row
WriteReport(r, safe_title, ws) ==
    IF ws.err # ""
    THEN [pc |-> "failed", error |-> ws.err, cursor |-> cursor,
          safe_title |-> safe_title, worksheets |-> worksheets,
          headers |-> ws.headers]
    ELSE [headers |-> ws.headers]
         @@ StoreRow(safe_title, ws.info,
                     add_data_row(ws.info.sheet, ws.info.next_row, r.file_name,
                                  FieldsOf(r.report), ws.info.structure_info,
                                  filter_text, apply_value_filters))

\* generator.py 142-157
ProcessReport(r, safe_title) == WriteReport(r, safe_title, WorksheetFor(safe_title))

\* generator.py 139-216: one iteration of the second pass
Pass2Step ==
    /\ pc = "pass2"
    /\ cursor <= Len(AllReports)
    /\ total_reports_processed' = total_reports_processed + 1
    /\ \E r \in {AllReports[cursor]} :
          \E step \in {ProcessReport(r, Pass2SafeTitle(r))} :
             /\ pass2_keys' = Append(pass2_keys, step.safe_title)
             /\ pc' = step.pc
             /\ error' = step.error
             /\ cursor' = step.cursor
             /\ worksheets' = step.worksheets
             /\ headers_written' =
                   headers_written \o [h \in 1..step.headers |-> step.safe_title]
    /\ UNCHANGED <<all_json_data, filter_text, apply_value_filters, all_structure_info,
                   pass1_keys, saved, arg, out>>

\* generator.py 218-236: adjust_column_widths reads the cell values and sets
\* the column widths, which the sheets here do not carry; the workbook is
\* saved and True returned
Finish ==
    /\ pc = "pass2"
    /\ cursor > Len(AllReports)
    /\ pc' = "done"
    /\ saved' = TRUE
    /\ UNCHANGED <<headers_written, all_json_data, filter_text, apply_value_filters, cursor,
                   all_structure_info, worksheets, total_reports_processed,
                   pass1_keys, pass2_keys, error, arg, out>>

-----------------------------------------------------------------------------
(* The inputs of create_excel_file *)

KeyA == <<"a">>

KeyB == <<"b">>

KeyX == <<"x">>

KeyY == <<"y">>

FiveVolts == Str(<<"5", " ", "[", "V", "]">>)

\* values of field a: none, scalars, lists of one and two items, a ragged
\* list of lists, two key-value lists
ValuesA ==
    {Null, Num(1), FiveVolts, List(<<Num(1)>>), List(<<Num(1), Num(2)>>),
     List(<<List(<<Num(1), Num(2)>>), List(<<Num(3)>>)>>),
     List(<<Dict(<< <<KeyX, Num(1)>> >>)>>),
     List(<<Dict(<< <<KeyY, FiveVolts>>, <<KeyX, Num(2)>> >>)>>)}

\* a list of dictionaries one of whose values is a dictionary
NestedKv == List(<<Dict(<< <<KeyX, Num(1)>>, <<KeyY, Dict(<< <<KeyX, Num(2)>> >>)>> >>)>>)

ValuesB == {Null, Num(2), List(<<Num(3), Num(4)>>)}

\* A report with a title (none if title is empty) and the fields a and b;
\* absent stands for a field the report lacks.
Report(title, a, absent_a, b, absent_b) ==
    Dict((IF title = <<>> THEN <<>> ELSE << <<KeyTitle, Str(title)>> >>)
         \o << <<KeyFields,
                 Dict((IF absent_b THEN <<>> ELSE << <<KeyB, b>> >>)
                      \o (IF absent_a THEN <<>> ELSE << <<KeyA, a>> >>))>> >>)

TitleT == <<"T">>

TitleU == <<"U", "/", "1">>

\* the reports the inputs are made of
Reports ==
    {Report(TitleT, a, FALSE, b, FALSE) :
        a \in {Num(1), List(<<Num(1), Num(2)>>),
               List(<<List(<<Num(1), Num(2)>>), List(<<Num(3)>>)>>)},
        b \in ValuesB \ {Null}}
    \cup {Report(TitleT, a, FALSE, Null, TRUE) : a \in ValuesA}
    \cup {Report(TitleT, Null, TRUE, b, b = Null) : b \in ValuesB}
    \cup {Report(TitleU, Num(1), FALSE, Null, TRUE),
          Report(TitleU, Null, TRUE, Num(2), FALSE),
          Report(<<>>, Num(1), FALSE, Null, TRUE),
          Report(TitleT, NestedKv, FALSE, Null, TRUE)}

FileF == <<"f", ".", "j", "s", "o", "n">>

FileG == <<"g", " ", "f", ".", "j", "s", "o", "n">>

SeqsUpTo(S, n) == UNION {[1..m -> S] : m \in 1..n}

\* the reports that follow the first one of a file
Followers ==
    {Report(TitleT, a, FALSE, Null, TRUE) :
        a \in {List(<<Num(1), Num(2)>>),
               List(<<List(<<Num(1), Num(2)>>), List(<<Num(3)>>)>>),
               List(<<Dict(<< <<KeyX, Num(1)>> >>)>>),
               List(<<Dict(<< <<KeyY, FiveVolts>>, <<KeyX, Num(2)>> >>)>>)}}
    \cup {Report(TitleT, Num(1), FALSE, List(<<Num(3), Num(4)>>), FALSE),
          Report(TitleT, FiveVolts, FALSE, Null, TRUE),
          Report(TitleT, List(<<Num(1)>>), FALSE, Num(2), FALSE),
          Report(TitleT, Null, TRUE, Num(2), FALSE),
          Report(TitleU, Num(1), FALSE, Null, TRUE),
          Report(<<>>, Num(1), FALSE, Null, TRUE)}

\* all_json_data: one file with a list of reports, or two files with one
\* report each
Inputs ==
    {<<[name |-> FileF, data |-> List(<<r>> \o rs)]>> :
        r \in Reports, rs \in {<<>>} \cup SeqsUpTo(Followers, MaxReports - 1)}
    \cup {<<[name |-> FileG, data |-> r1], [name |-> FileF, data |-> r2]>> :
             r1 \in {Report(TitleT, Num(1), FALSE, Null, TRUE),
                     Report(<<>>, Num(1), FALSE, Null, TRUE)},
             r2 \in {Report(TitleT, FiveVolts, FALSE, Num(2), FALSE),
                     Report(TitleU, Num(1), FALSE, Null, TRUE)}}

Init ==
    /\ all_json_data \in Inputs
    /\ \E o \in {<<<<>>, TRUE>>, <<<<"f">>, FALSE>>} :
          /\ filter_text = o[1]
          /\ apply_value_filters = o[2]
    /\ pc = "pass1"
    /\ cursor = 1
    /\ all_structure_info = EmptyMap
    /\ worksheets = EmptyMap
    /\ total_reports_processed = 0
    /\ pass1_keys = <<>>
    /\ pass2_keys = <<>>
    /\ error = ""
    /\ saved = FALSE
    /\ headers_written = <<>>
    /\ arg = Null
    /\ out = <<>>

Next == Pass1Step \/ Pass1End \/ Pass2Step \/ Finish

Spec == Init /\ [][Next]_vars

-----------------------------------------------------------------------------
(* Schema accumulation: what the first pass leaves in all_structure_info *)

\* the reports the first pass files under a sheet key, in encounter order
ReportsOfSheet(key) == SelectSeq(AllReports, LAMBDA r : Pass1SafeTitle(r) = key)

\* the shape descriptor of one report
DescriptorOf(r) == analyze_json_structure(List(<<r.report>>)).info

\* a dimension vector with 1 at its missing trailing levels
PadTo(d, n) == [i \in 1..n |-> IF i <= Len(d) THEN d[i] ELSE 1]

ElementwiseMax(a, b) ==
    LET n == Max(Len(a), Len(b))
    IN  [i \in 1..n |-> Max(PadTo(a, n)[i], PadTo(b, n)[i])]

RECURSIVE WidestDimensions(_, _)
\* the elementwise maximum of the dimensions of a field over reports
WidestDimensions(rs, key) ==
    IF rs = <<>> THEN <<>>
    ELSE ElementwiseMax(Get(DescriptorOf(rs[1]).nesting_structure, key, <<>>),
                        WidestDimensions(Tail(rs), key))

\* C1: when pass 1 is over, the dimensions of every field of every sheet are
\* the elementwise maximum (shorter vectors padded with 1) of the dimensions
\* classified from each report of the sheet.
C1_ElementwiseMaximum ==
    pc = "pass2" =>
        \A k \in DOMAIN all_structure_info :
            \A key \in all_structure_info[k].keys :
                Get(all_structure_info[k].nesting_structure, key, <<>>)
                    = WidestDimensions(ReportsOfSheet(k), key)

Reverse(s) == [i \in 1..Len(s) |-> s[Len(s) + 1 - i]]

RECURSIVE AccumulateAll(_, _)
\* the schema table after the descriptors of rs, first to last
AccumulateAll(table, rs) ==
    IF rs = <<>> THEN table
    ELSE AccumulateAll(Accumulate(table, Pass1SafeTitle(rs[1]), DescriptorOf(rs[1])),
                       Tail(rs))

\* C2: two reports with the same sheet key give the same schema (keys, depth,
\* dimensions, key-value-list info, needs_subtitles) in either order.
C2_Commutative ==
    (pc = "pass2" /\ Len(AllReports) = 2 /\ pass1_keys[1] = pass1_keys[2]) =>
        all_structure_info = AccumulateAll(EmptyMap, Reverse(AllReports))

\* C3: accumulating the descriptor of the report just accumulated once more
\* leaves the schema table as it is.
C3_Idempotent ==
    (pc = "pass1" /\ cursor > 1) =>
        LET r == AllReports[cursor - 1]
        IN  Accumulate(all_structure_info, Pass1SafeTitle(r), DescriptorOf(r))
                = all_structure_info

\* a second report of a sheet has been merged into a schema that differs
\* from its own descriptor
C3_Witness ==
    /\ pc = "pass1"
    /\ cursor = 3
    /\ pass1_keys[1] = pass1_keys[2]
    /\ all_structure_info[pass1_keys[2]] # DescriptorOf(AllReports[2])
    /\ all_structure_info[pass1_keys[2]] # DescriptorOf(AllReports[1])

\* the reports of a sheet in which a field is a key-value list
KvReports(k, key) ==
    {r \in Range(ReportsOfSheet(k)) : key \in DOMAIN DescriptorOf(r).kv_lists}

\* C4: a field that is a key-value list in some report of a sheet is a
\* key-value list of the sheet's schema, its unique_keys the sorted union of
\* the item keys over the reports of the sheet.
C4_KeyValueSuperset ==
    pc = "pass2" =>
        \A k \in DOMAIN all_structure_info :
            \A key \in all_structure_info[k].keys :
                KvReports(k, key) # {} =>
                    /\ key \in DOMAIN all_structure_info[k].kv_lists
                    /\ all_structure_info[k].kv_lists[key].unique_keys
                         = sorted(UNION {Range(DescriptorOf(r).kv_lists[key].unique_keys) :
                                            r \in KvReports(k, key)})

\* C5: every report gets in pass 2 the sheet key pass 1 filed it under, and
\* the lookup of the schema at sheet creation succeeds.
C5_SameSheetKey ==
    /\ \A i \in 1..Len(pass2_keys) : pass2_keys[i] = pass1_keys[i]
    /\ error # "KeyError: safe_title"

-----------------------------------------------------------------------------
(* The sheets: header region and data rows *)

\* the reports whose iteration of pass 2 ran to its end
Completed == IF pc = "failed" THEN Len(pass2_keys) - 1 ELSE Len(pass2_keys)

FirstDataRow(ws) == 2 + MaxNestingLevel(ws.structure_info)

\* the row of the i-th report in the sheet of its key
RowOfReport(i) ==
    FirstDataRow(worksheets[pass2_keys[i]])
        + Cardinality({j \in 1..(i - 1) : pass2_keys[j] = pass2_keys[i]})

\* the first column of a field: after the file name and the fields whose
\* names sort before it
FieldStart(structure_info, key) ==
    2 + SumWidths(structure_info, {x \in structure_info.keys : StrLess(x, key)})

FieldColumns(structure_info, key) ==
    FieldStart(structure_info, key)..
        (FieldStart(structure_info, key) + CountedWidth(structure_info, key) - 1)

ColumnsOfRow(sheet, row) == {x[2] : x \in {y \in DOMAIN sheet.cells : y[1] = row}}

\* the i-th report has a row of its own with cells in columns 1..column_count
\* and no others, the columns of the fields it lacks holding ""
RowOk(i) ==
    /\ pass2_keys[i] \in DOMAIN worksheets
    /\ LET ws == worksheets[pass2_keys[i]]
           row == RowOfReport(i)
           fields == FieldsOf(AllReports[i].report)
       IN  /\ row < ws.next_row
           /\ ColumnsOfRow(ws.sheet, row) = 1..ws.column_count
           /\ \A key \in ws.structure_info.keys \ DKeys(fields) :
                 \A c \in FieldColumns(ws.structure_info, key) :
                    ws.sheet.cells[<<row, c>>] = EmptyStr

\* a sheet has as many data rows as reports of its key were processed
OneRowEach(k) ==
    worksheets[k].next_row - FirstDataRow(worksheets[k])
        = Cardinality({j \in 1..Len(pass2_keys) : pass2_keys[j] = k})

\* C6: every report processed in pass 2 has exactly one data row in its
\* sheet, with a cell in each of columns 1..column_count and none beyond, the
\* columns of the fields it lacks holding the empty string.
C6_RectangularRows ==
    /\ \A i \in 1..Len(pass2_keys) : RowOk(i)
    /\ \A k \in DOMAIN worksheets : OneRowEach(k)

\* The same for the reports whose iteration of pass 2 ran to its end.
CompletedRowsRectangular ==
    /\ \A i \in 1..Completed : RowOk(i)
    /\ pc # "failed" => \A k \in DOMAIN worksheets : OneRowEach(k)

NonNull(sheet, row, col) ==
    <<row, col>> \in DOMAIN sheet.cells /\ sheet.cells[<<row, col>>] # Null

\* the cell lies in a merged range whose anchor cell is non-null
Covered(sheet, row, col) ==
    \E m \in sheet.merged : m[1] = row /\ m[2] <= col /\ col <= m[3]
                             /\ NonNull(sheet, row, m[2])

\* C7: in every sheet every cell of rows 1..(1 + subtitle rows) and columns
\* 1..column_count is non-null or covered by a merged range with a non-null
\* anchor.
C7_HeaderNonNull ==
    \A k \in DOMAIN worksheets :
        LET ws == worksheets[k]
        IN  \A row \in 1..(1 + MaxNestingLevel(ws.structure_info)) :
                \A col \in 1..ws.column_count :
                    NonNull(ws.sheet, row, col) \/ Covered(ws.sheet, row, col)

\* the columns of row 1 that hold a field name
LabelColumns(ws) == {c \in 2..ws.column_count : NonNull(ws.sheet, 1, c)}

\* C8: in every sheet the field names of the header ascend from left to
\* right, they are the fields the reports of the sheet have in any encounter
\* order, each field starts at the column the sorted order gives it, and in
\* every data row a scalar value stands in the first column of its field.
C8_SortedColumns ==
    \A k \in DOMAIN worksheets :
        LET ws == worksheets[k]
            info == ws.structure_info
        IN  /\ \A c1, c2 \in LabelColumns(ws) :
                  c1 < c2 => StrLess(ws.sheet.cells[<<1, c1>>].s, ws.sheet.cells[<<1, c2>>].s)
            /\ {ws.sheet.cells[<<1, c>>].s : c \in LabelColumns(ws)}
                  = AccumulateAll(EmptyMap, Reverse(AllReports))[k].keys
            /\ \A key \in info.keys : ws.sheet.cells[<<1, FieldStart(info, key)>>] = Str(key)
            /\ \A i \in 1..Completed :
                  pass2_keys[i] = k =>
                     LET fields == FieldsOf(AllReports[i].report)
                     IN  \A key \in DKeys(fields) \ DOMAIN info.kv_lists :
                            DGet(fields, key).k \in {"num", "str"} =>
                               ws.sheet.cells[<<RowOfReport(i), FieldStart(info, key)>>]
                                  = Filtered(DGet(fields, key), apply_value_filters)

\* a saved sheet with two fields and two rows whose reports brought field b
\* before field a
C8_Witness ==
    /\ pc = "done"
    /\ \E k \in DOMAIN worksheets :
          /\ worksheets[k].structure_info.keys = {KeyA, KeyB}
          /\ worksheets[k].next_row >= FirstDataRow(worksheets[k]) + 2
          /\ DKeys(FieldsOf(AllReports[1].report)) = {KeyB}
          /\ KeyA \in DKeys(FieldsOf(AllReports[2].report))

-----------------------------------------------------------------------------
(* ExcelDataWriter._add_nested_data on its own *)

MaxDepth == 2

MaxCells == 6

Leaves == {Num(1), FiveVolts}

\* dimension vectors of 1..MaxDepth levels, every entry at least 1, of at
\* most MaxCells cells
DimensionVectors ==
    {D \in UNION {[1..n -> 1..MaxCells] : n \in 1..MaxDepth} : Product(D) <= MaxCells}

RECURSIVE NestedValues(_)
\* the nested lists of uniform depth Len(D) whose lists at level L have at
\* most D[L] items
NestedValues(D) ==
    IF D = <<>> THEN Leaves
    ELSE {List(xs) : xs \in UNION {[1..m -> NestedValues(Tail(D))] : m \in 0..D[1]}}

InitFlatten ==
    /\ \E D \in DimensionVectors : \E v \in NestedValues(D) : \E c \in 2..3 :
          arg = [dimensions |-> D, value |-> v, row_num |-> 2, start_column |-> c]
    /\ apply_value_filters \in BOOLEAN
    /\ out = EmptySheet
    /\ pc = "flatten"
    /\ all_json_data = <<>>
    /\ filter_text = <<>>
    /\ cursor = 1
    /\ all_structure_info = EmptyMap
    /\ worksheets = EmptyMap
    /\ total_reports_processed = 0
    /\ pass1_keys = <<>>
    /\ pass2_keys = <<>>
    /\ error = ""
    /\ saved = FALSE
    /\ headers_written = <<>>

\* data_writer.py 128-169 on an empty row
NestedData ==
    /\ pc = "flatten"
    /\ out' = add_nested_data(EmptySheet, arg.row_num, arg.start_column, arg.value,
                              arg.dimensions, apply_value_filters)
    /\ pc' = "flattened"
    /\ UNCHANGED <<headers_written, all_json_data, filter_text, apply_value_filters, cursor,
                   all_structure_info, worksheets, total_reports_processed,
                   pass1_keys, pass2_keys, error, saved, arg>>

NextFlatten == NestedData

SpecFlatten == InitFlatten /\ [][NextFlatten]_vars

RECURSIVE LeafAt(_, _, _)
\* the leaf at a row-major index of a nested list, "" where the item is
\* missing
LeafAt(value, D, idx) ==
    IF D = <<>> THEN value
    ELSE LET stride == Product(Tail(D))
         IN  IF idx \div stride < Len(value.l)
             THEN LeafAt(value.l[(idx \div stride) + 1], Tail(D), idx % stride)
             ELSE EmptyStr

\* C9: the field takes product(D) consecutive columns; the cell at each
\* row-major index holds the leaf at that index (a string after the value
\* filter when the filter is on), "" where the item is missing.
C9_RowMajorPadded ==
    pc = "flattened" =>
        LET n == Product(arg.dimensions)
        IN  /\ out.cols = n
            /\ out.sheet.err = ""
            /\ ColumnsOfRow(out.sheet, arg.row_num)
                  = arg.start_column..(arg.start_column + n - 1)
            /\ \A idx \in 0..(n - 1) :
                  out.sheet.cells[<<arg.row_num, arg.start_column + idx>>]
                     = Filtered(LeafAt(arg.value, arg.dimensions, idx), apply_value_filters)

\* a ragged value has been rendered: with D = [2, 3], one of two items present
C9_Witness ==
    /\ pc = "flattened"
    /\ arg.dimensions = <<2, 3>>
    /\ arg.value = List(<<List(<<Num(1), FiveVolts, Num(1)>>)>>)
    /\ out.sheet.cells[<<2, arg.start_column + 3>>] = EmptyStr

-----------------------------------------------------------------------------
(* The classification of one field value *)

\* what an item of a list has under a key: a number, a string, a dictionary
ItemValues == {Num(1), FiveVolts, Dict(<< <<KeyX, Num(1)>>, <<KeyY, Num(2)>> >>)}

\* dictionaries with some of the keys x and y
Items ==
    {Dict(<<>>)}
    \cup {Dict(<< <<key, v>> >>) : key \in {KeyX, KeyY}, v \in ItemValues}
    \cup {Dict(<< <<KeyX, v>>, <<KeyY, w>> >>) : v \in ItemValues, w \in ItemValues}

\* field values: scalars, lists of scalars, lists of dictionaries
FieldValues ==
    {Null, Num(1), FiveVolts, List(<<>>), List(<<Num(1), Num(2)>>)}
    \cup {List(xs) : xs \in SeqsUpTo(Items, MaxItems)}

InitClassify ==
    /\ arg \in FieldValues
    /\ out = [err |-> "", info |-> EmptyStructure]
    /\ pc = "classify"
    /\ all_json_data = <<>>
    /\ filter_text = <<>>
    /\ apply_value_filters = TRUE
    /\ cursor = 1
    /\ all_structure_info = EmptyMap
    /\ worksheets = EmptyMap
    /\ total_reports_processed = 0
    /\ pass1_keys = <<>>
    /\ pass2_keys = <<>>
    /\ error = ""
    /\ saved = FALSE
    /\ headers_written = <<>>

\* analyzer.py 64-135 for a field a of a report with no other field
Classify ==
    /\ pc = "classify"
    /\ out' = AnalyzeField(EmptyStructure, KeyA, arg)
    /\ pc' = "classified"
    /\ UNCHANGED <<headers_written, all_json_data, filter_text, apply_value_filters, cursor,
                   all_structure_info, worksheets, total_reports_processed,
                   pass1_keys, pass2_keys, error, saved, arg>>

NextClassify == Classify

SpecClassify == InitClassify /\ [][NextClassify]_vars

\* a non-empty list of dictionaries with the same keys, a value of which is
\* a dictionary
NestedKeyValueList(value) ==
    /\ NonEmptyListOfDicts(value)
    /\ \A i \in 1..Len(value.l) : DKeys(value.l[i]) = DKeys(value.l[1])
    /\ \E i \in 1..Len(value.l) : \E key \in DKeys(value.l[i]) :
          IsDict(DGet(value.l[i], key))

\* the dotted paths parent.child of the dictionaries the items have under a key
PathsOf(value, key) ==
    {key \o <<".">> \o child :
        child \in UNION {IF IsDict(DGet(value.l[i], key)) THEN DKeys(DGet(value.l[i], key))
                         ELSE {} : i \in 1..Len(value.l)}}

\* C10: the classification of a nested key-value list succeeds and gives a
\* key-value-list descriptor with the sorted keys of the items as unique_keys
\* and, for every key with a dictionary value, the dotted paths of its leaves
\* in nested_structure.
C10_NestedKeyValue ==
    (pc = "classified" /\ NestedKeyValueList(arg)) =>
        /\ out.err = ""
        /\ KeyA \in DOMAIN out.info.kv_lists
        /\ out.info.kv_lists[KeyA].unique_keys = sorted(DKeys(arg.l[1]))
        /\ \A key \in DKeys(arg.l[1]) :
              PathsOf(arg, key) # {} =>
                 /\ key \in DOMAIN NestedStructureOf(out.info.kv_lists[KeyA])
                 /\ Range(NestedStructureOf(out.info.kv_lists[KeyA])[key].paths)
                      = PathsOf(arg, key)

-----------------------------------------------------------------------------
(* ExcelDataWriter._add_key_value_list_data_with_nesting on its own *)

KeyP == <<"p">>

PathBX == <<"b", ".", "x">>

PathBY == <<"b", ".", "y">>

PathBXP == <<"b", ".", "x", ".", "p">>

\* kv_list_info: the keys a and b, b plain or with registered paths
KvSchemas ==
    {[unique_keys |-> <<KeyA, KeyB>>]}
    \cup {[unique_keys |-> <<KeyA, KeyB>>,
           nested_structure |-> (KeyB :> [paths |-> ps])] :
             ps \in {<<PathBX, PathBY>>, <<PathBY, PathBX>>, <<PathBXP, PathBY>>,
                     <<PathBX>>}}

\* what an item has under b
KvNested ==
    {Num(2),
     Dict(<< <<KeyX, Num(10)>>, <<KeyY, Num(20)>> >>),
     Dict(<< <<KeyY, FiveVolts>>, <<KeyX, Num(10)>> >>),
     Dict(<< <<KeyX, Dict(<< <<KeyP, Num(10)>> >>)>>, <<KeyY, Num(20)>> >>),
     Dict(<< <<KeyX, Num(10)>> >>)}

\* the values rendered: lists of one or two items with a and b, an item
\* without a, an empty list, a value that is no list
KvValues ==
    {List(<<Dict(<< <<KeyA, a>>, <<KeyB, b>> >>)>>) : a \in {Num(1), FiveVolts}, b \in KvNested}
    \cup {List(<<Dict(<< <<KeyB, b>> >>)>>) : b \in KvNested}
    \cup {List(<<Dict(<< <<KeyA, Num(1)>>, <<KeyB, b>> >>),
                 Dict(<< <<KeyA, Num(3)>>, <<KeyB, Num(4)>> >>)>>) : b \in KvNested}
    \cup {List(<<>>), EmptyStr, List(<<Num(1)>>)}

InitKv ==
    /\ \E s \in KvSchemas : \E v \in KvValues : \E c \in 2..3 :
          arg = [kv_list_info |-> s, value |-> v, row_num |-> 2, start_column |-> c]
    /\ apply_value_filters \in BOOLEAN
    /\ out = EmptySheet
    /\ pc = "render"
    /\ all_json_data = <<>>
    /\ filter_text = <<>>
    /\ cursor = 1
    /\ all_structure_info = EmptyMap
    /\ worksheets = EmptyMap
    /\ total_reports_processed = 0
    /\ pass1_keys = <<>>
    /\ pass2_keys = <<>>
    /\ error = ""
    /\ saved = FALSE
    /\ headers_written = <<>>

\* data_writer.py 422-512 on an empty row
RenderKv ==
    /\ pc = "render"
    /\ out' = add_key_value_list_data_with_nesting(EmptySheet, arg.row_num,
                  arg.start_column, arg.value, arg.kv_list_info,
                  apply_value_filters).sheet
    /\ pc' = "rendered"
    /\ UNCHANGED <<headers_written, all_json_data, filter_text, apply_value_filters, cursor,
                   all_structure_info, worksheets, total_reports_processed,
                   pass1_keys, pass2_keys, error, saved, arg>>

NextKv == RenderKv

SpecKv == InitKv /\ [][NextKv]_vars

RECURSIVE Parts(_)
\* the parts of a dotted path
Parts(path) ==
    IF ~Contains(path, <<".">>) THEN <<path>>
    ELSE LET i == CHOOSE j \in 1..Len(path) :
                     path[j] = "." /\ \A h \in 1..(j - 1) : path[h] # "."
         IN  <<SubSeq(path, 1, i - 1)>> \o Parts(From(path, i + 1))

RECURSIVE ValueAt(_, _)
\* what an object has at the end of a sequence of keys, "" if it has nothing
ValueAt(obj, keys) ==
    IF keys = <<>> THEN obj
    ELSE IF IsDict(obj) /\ keys[1] \in DKeys(obj)
    THEN ValueAt(DGet(obj, keys[1]), Tail(keys))
    ELSE EmptyStr

RECURSIVE ExpectedKvCells(_, _, _)
\* the values a row has for the keys of a schema: for a nested key one value
\* for each registered path, in registration order, else the item's value
ExpectedKvCells(item, kv_list_info, keys) ==
    IF keys = <<>> THEN <<>>
    ELSE LET key == keys[1]
             here ==
                 IF key \in DOMAIN NestedStructureOf(kv_list_info)
                 THEN LET paths == NestedStructureOf(kv_list_info)[key].paths
                      IN  [j \in 1..Len(paths) |->
                              IF key \in DKeys(item) /\ IsDict(DGet(item, key))
                              THEN ValueAt(item, Parts(paths[j]))
                              ELSE EmptyStr]
                 ELSE <<IF key \in DKeys(item) THEN DGet(item, key) ELSE EmptyStr>>
         IN  here \o ExpectedKvCells(item, kv_list_info, Tail(keys))

\* the item rendered has for every nested key a dictionary whose leaves are
\* the registered paths
LeavesRegistered(item, kv_list_info) ==
    /\ \A key \in Range(kv_list_info.unique_keys) : key \in DKeys(item)
    /\ \A key \in DOMAIN NestedStructureOf(kv_list_info) :
          /\ IsDict(DGet(item, key))
          /\ \A j \in 1..Len(NestedStructureOf(kv_list_info)[key].paths) :
                LET leaf == ValueAt(item, Parts(NestedStructureOf(kv_list_info)[key].paths[j]))
                IN  leaf # EmptyStr /\ ~IsDict(leaf)
    /\ \A key \in Range(kv_list_info.unique_keys) \ DOMAIN NestedStructureOf(kv_list_info) :
          ~IsDict(DGet(item, key))

\* C11: rendering a key-value list whose first item has a leaf at every
\* registered path writes exactly the reserved cells, and each holds the
\* (filtered) leaf of its path, the paths of a nested key in registration
\* order; [{a:1, b:{x:10, y:20}}] with the paths b.x, b.y gives 1, 10, 20.
C11_PathLeaves ==
    (pc = "rendered" /\ IsList(arg.value) /\ arg.value.l # <<>>
       /\ IsDict(arg.value.l[1]) /\ LeavesRegistered(arg.value.l[1], arg.kv_list_info)) =>
        LET cells == ExpectedKvCells(arg.value.l[1], arg.kv_list_info,
                                     arg.kv_list_info.unique_keys)
        IN  /\ out.err = ""
            /\ DOMAIN out.cells =
                 {arg.row_num} \X (arg.start_column..(arg.start_column + Len(cells) - 1))
            /\ \A j \in 1..Len(cells) :
                  out.cells[<<arg.row_num, arg.start_column + j - 1>>]
                    = Filtered(cells[j], apply_value_filters)

\* C11, the case of the example: the paths of a nested key are one level
\* below it
C11_OneLevelPaths ==
    (pc = "rendered" /\ IsList(arg.value) /\ arg.value.l # <<>>
       /\ IsDict(arg.value.l[1]) /\ LeavesRegistered(arg.value.l[1], arg.kv_list_info)
       /\ \A key \in DOMAIN NestedStructureOf(arg.kv_list_info) :
             \A p \in Range(NestedStructureOf(arg.kv_list_info)[key].paths) :
                Len(Parts(p)) = 2) =>
        LET cells == ExpectedKvCells(arg.value.l[1], arg.kv_list_info,
                                     arg.kv_list_info.unique_keys)
        IN  /\ out.err = ""
            /\ DOMAIN out.cells =
                 {arg.row_num} \X (arg.start_column..(arg.start_column + Len(cells) - 1))
            /\ \A j \in 1..Len(cells) :
                  out.cells[<<arg.row_num, arg.start_column + j - 1>>]
                    = Filtered(cells[j], apply_value_filters)

-----------------------------------------------------------------------------
(* The values of the cells of a data row *)

KeyTestDate == <<"T", "e", "s", "t", " ", "D", "a", "t", "e">>

\* strings that read as a date, as numbers, as text, and a number
CellValues ==
    {Str(<<"2", "0", "2", "4", "-", "0", "4", "-", "2", "2">>),
     Str(<<"1", "2", ".", "5">>), Str(<<"1", "2">>), Str(<<"-", "3">>),
     Str(<<"f", "o", "o">>), FiveVolts, Num(7)}

\* a file with one report whose only field is a string, a number or a list of
\* two of them
TypingInputs ==
    {<<[name |-> FileF,
        data |-> List(<<Dict(<< <<KeyTitle, Str(TitleT)>>,
                                <<KeyFields, Dict(<< <<key, v>> >>)>> >>)>>)]>> :
        key \in {KeyA, KeyTestDate},
        v \in CellValues \cup {List(<<Str(<<"1", "2", ".", "5">>), w>>) : w \in CellValues}}

InitTyping ==
    /\ all_json_data \in TypingInputs
    /\ \E o \in {<<<<>>, TRUE>>, <<<<"f">>, FALSE>>} :
          /\ filter_text = o[1]
          /\ apply_value_filters = o[2]
    /\ pc = "pass1"
    /\ cursor = 1
    /\ all_structure_info = EmptyMap
    /\ worksheets = EmptyMap
    /\ total_reports_processed = 0
    /\ pass1_keys = <<>>
    /\ pass2_keys = <<>>
    /\ error = ""
    /\ saved = FALSE
    /\ headers_written = <<>>
    /\ arg = Null
    /\ out = <<>>

SpecTyping == InitTyping /\ [][Next]_vars

IsDigit(c) == c \in {"0", "1", "2", "3", "4", "5", "6", "7", "8", "9"}

AllDigits(s) == s # <<>> /\ \A i \in 1..Len(s) : IsDigit(s[i])

\* a string float() converts: an optional sign, digits, an optional fraction
IsNumeral(s) ==
    LET u == IF s # <<>> /\ s[1] = "-" THEN Tail(s) ELSE s
    IN  \/ AllDigits(u)
        \/ \E i \in 1..Len(u) :
              /\ u[i] = "."
              /\ AllDigits(SubSeq(u, 1, i - 1))
              /\ AllDigits(From(u, i + 1))

IsIntegerNumeral(s) == AllDigits(IF s # <<>> /\ s[1] = "-" THEN Tail(s) ELSE s)

RECURSIVE NaturalOf(_)
NaturalOf(s) ==
    IF s = <<>> THEN 0
    ELSE 10 * NaturalOf(SubSeq(s, 1, Len(s) - 1))
         + (CHOOSE d \in 0..9 : Digits(d) = <<s[Len(s)]>>)

IntegerOf(s) == IF s[1] = "-" THEN 0 - NaturalOf(Tail(s)) ELSE NaturalOf(s)

\* the ISO pattern yyyy-mm-dd, the first of the date patterns
IsIsoDate(s) ==
    /\ Len(s) = 10
    /\ \A i \in {1, 2, 3, 4, 6, 7, 9, 10} : IsDigit(s[i])
    /\ s[5] = "-" /\ s[8] = "-"

\* 'date' in name.lower()
IsDateField(name) ==
    \E i \in 1..(Len(name) - 3) :
        /\ name[i] \in {"d", "D"} /\ name[i + 1] \in {"a", "A"}
        /\ name[i + 2] \in {"t", "T"} /\ name[i + 3] \in {"e", "E"}

\* the cell has the type and value the string of a field is to be given
TypedAs(cell, name, text) ==
    IF IsDateField(name) /\ IsIsoDate(text) THEN cell.k = "date"
    ELSE IF IsIntegerNumeral(text) THEN cell = Num(IntegerOf(text))
    ELSE IF IsNumeral(text) THEN cell.k = "num"
    ELSE cell = Str(text)

\* C12: in a saved sheet the cell of every string of a field is a date if the
\* field name contains 'date' and the string matches a date pattern, else a
\* number if the string (after the unit filter) converts to one, else the
\* string unchanged.
C12_TypedCells ==
    pc = "done" =>
        \A i \in 1..Completed :
            LET ws == worksheets[pass2_keys[i]]
                fields == FieldsOf(AllReports[i].report)
            IN  \A key \in DKeys(fields) :
                    LET v == DGet(fields, key)
                        vs == IF IsList(v) THEN v.l ELSE <<v>>
                    IN  \A j \in 1..Len(vs) :
                            IsStr(vs[j]) =>
                               TypedAs(ws.sheet.cells[<<RowOfReport(i),
                                           FieldStart(ws.structure_info, key) + j - 1>>],
                                       key, Filtered(vs[j], apply_value_filters).s)

\* C12, the part about text: a string that is neither a date nor a number is
\* written unchanged
C12_TextUnchanged ==
    pc = "done" =>
        \A i \in 1..Completed :
            LET ws == worksheets[pass2_keys[i]]
                fields == FieldsOf(AllReports[i].report)
            IN  \A key \in DKeys(fields) :
                    LET v == DGet(fields, key)
                        vs == IF IsList(v) THEN v.l ELSE <<v>>
                    IN  \A j \in 1..Len(vs) :
                            (IsStr(vs[j]) /\ ~IsNumeral(Filtered(vs[j], apply_value_filters).s)
                               /\ ~IsIsoDate(vs[j].s)) =>
                               ws.sheet.cells[<<RowOfReport(i),
                                   FieldStart(ws.structure_info, key) + j - 1>>]
                                 = Filtered(vs[j], apply_value_filters)

-----------------------------------------------------------------------------
(* Titles that give the same sheet name *)

TitleColon == <<"U", ":", "1">>

\* 32 and 33 characters with the same first 31
TitleLong ==
    <<"A", "B", "C", "D", "E", "F", "G", "H", "I", "J", "K", "L", "M", "N", "O", "P",
      "Q", "R", "S", "T", "U", "V", "W", "X", "Y", "Z", "0", "1", "2", "3", "4", "5">>

TitleLonger == TitleLong \o <<"6">>

Titles == {TitleT, TitleU, TitleColon, TitleLong, TitleLonger}

\* one file with two titled reports with a field a
TitleInputs ==
    {<<[name |-> FileF,
        data |-> List(<<Report(t1, a1, FALSE, Null, TRUE),
                        Report(t2, a2, FALSE, Null, TRUE)>>)]>> :
        t1 \in Titles, t2 \in Titles,
        a1 \in {Num(1), List(<<Num(1), Num(2)>>)}, a2 \in {Num(1), FiveVolts}}

InitTitles ==
    /\ all_json_data \in TitleInputs
    /\ filter_text = <<>>
    /\ apply_value_filters = TRUE
    /\ pc = "pass1"
    /\ cursor = 1
    /\ all_structure_info = EmptyMap
    /\ worksheets = EmptyMap
    /\ total_reports_processed = 0
    /\ pass1_keys = <<>>
    /\ pass2_keys = <<>>
    /\ error = ""
    /\ saved = FALSE
    /\ headers_written = <<>>
    /\ arg = Null
    /\ out = <<>>

SpecTitles == InitTitles /\ [][Next]_vars

\* C13: two reports with distinct declared titles are written to distinct
\* sheets, or the run reports the collision of their sheet names.
C13_NoSilentMerge ==
    \A i, j \in 1..Len(pass2_keys) :
        (/\ i < j
         /\ TitleOf(AllReports[i].report).k = "str"
         /\ TitleOf(AllReports[j].report).k = "str"
         /\ TitleOf(AllReports[i].report) # TitleOf(AllReports[j].report)
         /\ pass2_keys[i] = pass2_keys[j]) => error # ""

-----------------------------------------------------------------------------
(* Files whose data is no dictionary and no list of dictionaries *)

\* what a file holds: a number, a string, null, lists with an item that is no
\* dictionary, a report
FileData ==
    {Num(5), FiveVolts, Null, List(<<Num(1)>>), List(<<List(<<Num(1)>>)>>),
     Report(TitleT, Num(1), FALSE, Null, TRUE),
     List(<<Report(TitleT, Num(1), FALSE, Null, TRUE), Num(5)>>)}

\* one file, or two files
DegenerateInputs ==
    {<<[name |-> FileF, data |-> d]>> : d \in FileData}
    \cup {<<[name |-> FileG, data |-> d1], [name |-> FileF, data |-> d2]>> :
             d1 \in FileData, d2 \in FileData}

InitDegenerate ==
    /\ all_json_data \in DegenerateInputs
    /\ \E o \in {<<<<>>, TRUE>>, <<<<"f">>, FALSE>>} :
          /\ filter_text = o[1]
          /\ apply_value_filters = o[2]
    /\ pc = "pass1"
    /\ cursor = 1
    /\ all_structure_info = EmptyMap
    /\ worksheets = EmptyMap
    /\ total_reports_processed = 0
    /\ pass1_keys = <<>>
    /\ pass2_keys = <<>>
    /\ error = ""
    /\ saved = FALSE
    /\ headers_written = <<>>
    /\ arg = Null
    /\ out = <<>>

SpecDegenerate == InitDegenerate /\ [][Next]_vars

\* C14: when the run of create_excel_file has ended it has succeeded, and
\* every report that is no dictionary has a row of its own in which column 1
\* holds the file's identifier and no other column holds a value.
C14_DegenerateRow ==
    (pc \in {"done", "failed"}
       /\ \E i \in 1..Len(AllReports) : ~IsDict(AllReports[i].report)) =>
        /\ pc = "done"
        /\ \A i \in 1..Len(AllReports) :
              ~IsDict(AllReports[i].report) =>
                 LET sheet == worksheets[pass2_keys[i]].sheet
                     row == RowOfReport(i)
                 IN  /\ sheet.cells[<<row, 1>>]
                          = Str(process_filename(AllReports[i].file_name, filter_text))
                     /\ \A rc \in DOMAIN sheet.cells :
                           (rc[1] = row /\ rc[2] # 1) =>
                              sheet.cells[rc] \in {EmptyStr, Null}

-----------------------------------------------------------------------------
(* Lists of dictionaries whose keys differ *)

\* dictionaries with some of the keys x and y and no dictionary inside
PlainItems ==
    {Dict(<<>>), Dict(<< <<KeyX, Num(1)>> >>), Dict(<< <<KeyY, Num(2)>> >>),
     Dict(<< <<KeyX, Num(1)>>, <<KeyY, Num(2)>> >>), Dict(<< <<KeyX, FiveVolts>> >>)}

\* one report whose field a is a list of such dictionaries
InconsistentInputs ==
    {<<[name |-> FileF, data |-> List(<<Report(TitleT, List(xs), FALSE, Null, TRUE)>>)]>> :
        xs \in SeqsUpTo(PlainItems, MaxItems)}

InitInconsistent ==
    /\ all_json_data \in InconsistentInputs
    /\ \E o \in {<<<<>>, TRUE>>, <<<<"f">>, FALSE>>} :
          /\ filter_text = o[1]
          /\ apply_value_filters = o[2]
    /\ pc = "pass1"
    /\ cursor = 1
    /\ all_structure_info = EmptyMap
    /\ worksheets = EmptyMap
    /\ total_reports_processed = 0
    /\ pass1_keys = <<>>
    /\ pass2_keys = <<>>
    /\ error = ""
    /\ saved = FALSE
    /\ headers_written = <<>>
    /\ arg = Null
    /\ out = <<>>

SpecInconsistent == InitInconsistent /\ [][Next]_vars

\* the field a of the first report is a non-empty list of dictionaries that
\* do not all have the same keys
InconsistentKeys ==
    LET fields == FieldsOf(AllReports[1].report)
    IN  /\ KeyA \in DKeys(fields)
        /\ NonEmptyListOfDicts(DGet(fields, KeyA))
        /\ \E i, j \in 1..Len(DGet(fields, KeyA).l) :
              DKeys(DGet(fields, KeyA).l[i]) # DKeys(DGet(fields, KeyA).l[j])

\* C15, the classification: the field is a nested list of depth 1 with the
\* length of the list as its dimension and no key-value-list entry.
C15_Downgraded ==
    (InconsistentKeys /\ pc # "pass1") =>
        LET info == all_structure_info[pass1_keys[1]]
        IN  /\ info.nesting_depth[KeyA] = 1
            /\ info.nesting_structure[KeyA]
                 = <<Len(DGet(FieldsOf(AllReports[1].report), KeyA).l)>>
            /\ KeyA \notin DOMAIN info.kv_lists

\* C15: a field that is a list of dictionaries with differing keys is
\* classified as a nested list of depth 1 with dimensions [len(list)] and no
\* key-value-list entry, and no step of the run on the report fails.
C15_InconsistentKeysNoFailure ==
    InconsistentKeys =>
        /\ C15_Downgraded
        /\ pc # "failed"
        /\ error = ""

-----------------------------------------------------------------------------
(* The outcome of create_excel_file *)

\* C16: a run that raised has a message, returns False and has not saved the
\* workbook; the workbook is saved, and True returned, only with no exception
\* raised and a row rendered for every report.
C16_FailureReporting ==
    /\ pc = "failed" => (error # "" /\ ~saved)
    /\ error # "" => pc = "failed"
    /\ pc = "done" <=> saved
    /\ saved =>
          /\ Len(pass2_keys) = Len(AllReports)
          /\ \A k \in DOMAIN worksheets : worksheets[k].sheet.err = ""
          /\ \A i \in 1..Len(AllReports) :
                <<RowOfReport(i), 1>> \in DOMAIN worksheets[pass2_keys[i]].sheet.cells

\* a run that raised in the second pass with one row already rendered
C16_Witness ==
    /\ pc = "failed"
    /\ ~saved
    /\ Len(pass2_keys) = 2
    /\ \E k \in DOMAIN worksheets : worksheets[k].next_row > FirstDataRow(worksheets[k])

-----------------------------------------------------------------------------
(* The schema table in the second pass *)

\* C17: no step of the second pass changes an entry of the schema table, and
\* the schema a sheet is given at its creation is the table's entry and stays
\* the one its rows are rendered with.
C17_SchemaImmutable ==
    [][pc = "pass2" =>
          /\ all_structure_info' = all_structure_info
          /\ \A k \in DOMAIN worksheets :
                /\ k \in DOMAIN worksheets'
                /\ worksheets'[k].structure_info = worksheets[k].structure_info
          /\ \A k \in DOMAIN worksheets' :
                worksheets'[k].structure_info = all_structure_info[k]]_vars

\* a sheet with two rows rendered
C17_Witness ==
    /\ pc = "done"
    /\ \E k \in DOMAIN worksheets :
          /\ worksheets[k].next_row = FirstDataRow(worksheets[k]) + 2
          /\ ~worksheets[k].structure_info.needs_subtitles


\* ---------------------------------------------------------------------------
\* Header setup of a sheet (generator.py 159-189)
\* ---------------------------------------------------------------------------

\* C18: the header of a sheet is written exactly once, at the step of the
\* second pass that meets the sheet for the first time and before any data
\* row of the sheet exists; a later report of the same sheet never runs the
\* header setup again.
C18_HeaderOnce ==
    [][/\ headers_written' # headers_written
          => \E k \in DOMAIN all_structure_info :
                /\ headers_written' = Append(headers_written, k)
                /\ k \notin Range(headers_written)
                /\ k \notin Range(pass2_keys)
                /\ k \notin DOMAIN worksheets
                /\ pass2_keys' = Append(pass2_keys, k)
                /\ pc = "pass2"
                /\ k \in DOMAIN worksheets'
                      => worksheets'[k].next_row <= FirstDataRow(worksheets'[k]) + 1
       /\ (pass2_keys' # pass2_keys /\ headers_written' = headers_written)
          => \/ pass2_keys'[Len(pass2_keys')] \in Range(headers_written)
                /\ pass2_keys'[Len(pass2_keys')] \in DOMAIN worksheets
             \/ error' = "KeyError: safe_title"
       /\ \A k \in DOMAIN worksheets' : k \in Range(headers_written')
      ]_vars

\* a finished run in which a sheet holds the rows of two reports and its
\* header was set up once
C18_Witness ==
    /\ pc = "done"
    /\ \E k \in DOMAIN worksheets :
          /\ worksheets[k].next_row = FirstDataRow(worksheets[k]) + 2
          /\ Len(SelectSeq(headers_written, LAMBDA x : x = k)) = 1
          /\ Len(SelectSeq(pass2_keys, LAMBDA x : x = k)) = 2

\* ---------------------------------------------------------------------------
\* Placement of the data rows (generator.py 181, 204-216)
\* ---------------------------------------------------------------------------

\* the rows the header setup of a schema writes cells in
HeaderRows(structure_info) ==
    {c[1] : c \in DOMAIN setup_headers(EmptySheet, structure_info).sheet.cells}

SubtitleRows(structure_info) == Cardinality(HeaderRows(structure_info) \ {1})

\* the sheet of a key as the report about to be written finds it: the sheet
\* so far, or the header alone at the sheet's first report
SheetBefore(k) ==
    IF k \in DOMAIN worksheets THEN worksheets[k].sheet
    ELSE setup_headers(EmptySheet, all_structure_info[k]).sheet

\* the cells of a sheet that an operation wrote or changed
CellsWritten(before, after) ==
    {c \in DOMAIN after.cells : c \notin DOMAIN before.cells
                                   \/ after.cells[c] # before.cells[c]}

TimesSeen(keys, k) == Cardinality({j \in 1..Len(keys) : keys[j] = k})

\* the report at the second pass's cursor was rendered into the sheet of key
\* k: its row is the first data row plus the number of earlier reports of k,
\* the row was empty before, holds the report's file name in column 1 after,
\* and nothing outside the row was touched
PlacedAt(k) ==
    /\ HeaderRows(worksheets'[k].structure_info)
          = 1..(1 + SubtitleRows(worksheets'[k].structure_info))
    /\ \E row \in {2 + SubtitleRows(worksheets'[k].structure_info)
                     + TimesSeen(pass2_keys, k)} :
          /\ ColumnsOfRow(SheetBefore(k), row) = {}
          /\ \A c \in DOMAIN SheetBefore(k).cells : c[1] < row
          /\ \A c \in CellsWritten(SheetBefore(k), worksheets'[k].sheet) : c[1] = row
          /\ DOMAIN SheetBefore(k).cells \subseteq DOMAIN worksheets'[k].sheet.cells
          /\ <<row, 1>> \in DOMAIN worksheets'[k].sheet.cells
          /\ worksheets'[k].sheet.cells[<<row, 1>>] = Str(process_filename(AllReports[cursor].file_name, filter_text))
          /\ pc' # "failed" => worksheets'[k].next_row = row + 1
    /\ \A o \in DOMAIN worksheets' \ {k} :
          o \in DOMAIN worksheets /\ worksheets'[o] = worksheets[o]

\* C19: in every sheet the first data row is row 2 + (number of subtitle
\* rows), and the k-th report of the sheet's key, in the order the second pass
\* meets the reports, is written at row first data row + k - 1: into an empty
\* row below everything written so far, touching no other row and no other
\* sheet.
C19_RowPlacement ==
    [][pass2_keys' # pass2_keys
         => \E k \in {pass2_keys'[Len(pass2_keys')]} :
               IF k \in DOMAIN worksheets' THEN PlacedAt(k)
               ELSE worksheets' = worksheets /\ pc' = "failed"
      ]_vars

\* a finished run that wrote two reports into a sheet with a subtitle row
C19_Witness ==
    /\ pc = "done"
    /\ \E k \in DOMAIN worksheets :
          /\ SubtitleRows(worksheets[k].structure_info) >= 1
          /\ TimesSeen(pass2_keys, k) = 2
          /\ worksheets[k].next_row = 4 + SubtitleRows(worksheets[k].structure_info)

\* ---------------------------------------------------------------------------
\* The next_row of a sheet (generator.py 181, 184-189, 216)
\* ---------------------------------------------------------------------------

\* the step called add_data_row for the sheet of key k: it processed a report
\* of key k and the sheet's entry exists after it
RenderCall(k) ==
    /\ pass2_keys' = Append(pass2_keys, k)
    /\ k \in DOMAIN worksheets'

\* the next_row the call was given: the entry's, or the one line 181 computes
\* at the sheet's first report
NextRowBefore(k) ==
    IF k \in DOMAIN worksheets THEN worksheets[k].next_row
    ELSE 2 + MaxNestingLevel(all_structure_info[k])

\* the step changed the next_row of no sheet but k's
OthersKeepNextRow(k) ==
    \A o \in DOMAIN worksheets \ {k} :
        o \in DOMAIN worksheets' /\ worksheets'[o].next_row = worksheets[o].next_row

\* the step changed no sheet's next_row and created no sheet
AllKeepNextRow ==
    /\ DOMAIN worksheets' = DOMAIN worksheets
    /\ \A o \in DOMAIN worksheets : worksheets'[o].next_row = worksheets[o].next_row

\* C20: during the second pass the next_row of a sheet advances by exactly 1
\* at every call of add_data_row for the sheet, whether the call returns or
\* raises, and no other step changes it.
C20_CursorAdvance ==
    [][pc = "pass2"
         => IF \E k \in DOMAIN all_structure_info : RenderCall(k)
            THEN \A k \in DOMAIN all_structure_info :
                    RenderCall(k)
                       => /\ worksheets'[k].next_row = NextRowBefore(k) + 1
                          /\ OthersKeepNextRow(k)
            ELSE AllKeepNextRow
      ]_vars

\* What the second pass does: the next_row of a sheet advances by exactly 1
\* at every call of add_data_row for the sheet that returns; a call that
\* raises leaves it as it was and ends the run; no other step changes it.
C20_CursorAdvanceOnReturn ==
    [][pc = "pass2"
         => IF \E k \in DOMAIN all_structure_info : RenderCall(k)
            THEN \A k \in DOMAIN all_structure_info :
                    RenderCall(k)
                       => /\ pc' # "failed"
                             => worksheets'[k].next_row = NextRowBefore(k) + 1
                          /\ pc' = "failed"
                             => /\ worksheets'[k].next_row = NextRowBefore(k)
                                /\ worksheets'[k].sheet.err # ""
                          /\ OthersKeepNextRow(k)
            ELSE AllKeepNextRow
      ]_vars

\* a run ended by add_data_row raising at the second report of a sheet: the
\* first report's row advanced next_row, the failing call did not
FailingCallKeepsNextRow ==
    /\ pc = "failed"
    /\ \E k \in DOMAIN worksheets :
          /\ worksheets[k].sheet.err # ""
          /\ TimesSeen(pass2_keys, k) = 2
          /\ worksheets[k].next_row = FirstDataRow(worksheets[k]) + 1

\* ---------------------------------------------------------------------------
\* Column widths (formatter.py 73-132, 271-288; data_writer.py 31-78)
\* ---------------------------------------------------------------------------

\* values of field a with empty parts: an empty list, a list of empty lists,
\* a key-value list whose dictionary has no keys, next to plain ones
WidthValuesA ==
    {Num(1), List(<<>>), List(<<List(<<>>), List(<<>>)>>), List(<<Dict(<<>>)>>),
     List(<<Dict(<< <<KeyX, Num(1)>> >>)>>),
     List(<<Dict(<< <<KeyY, FiveVolts>>, <<KeyX, Num(2)>> >>)>>),
     List(<<Num(1)>>), List(<<Num(1), Num(2)>>),
     List(<<List(<<Num(1), Num(2)>>), List(<<Num(3)>>)>>)}

WidthReports ==
    {Report(TitleT, a, FALSE, b, b = Null) :
        a \in WidthValuesA, b \in {Null, Num(2), List(<<Num(3), Num(4)>>)}}
    \cup {Report(TitleT, Null, TRUE, Num(2), FALSE)}

\* the reports that follow the first one
WidthFollowers ==
    {Report(TitleT, a, FALSE, Num(2), FALSE) :
        a \in {List(<<>>), List(<<List(<<>>), List(<<>>)>>), List(<<Num(1), Num(2)>>),
               List(<<Dict(<< <<KeyX, Num(1)>> >>)>>)}}
    \cup {Report(TitleT, Null, TRUE, Num(2), FALSE)}

\* all_json_data: one file with a list of reports of one sheet
WidthInputs ==
    {<<[name |-> FileF, data |-> List(<<r>> \o rs)]>> :
        r \in WidthReports, rs \in {<<>>} \cup SeqsUpTo(WidthFollowers, MaxReports - 1)}

InitWidths ==
    /\ all_json_data \in WidthInputs
    /\ \E o \in {<<<<>>, TRUE>>, <<<<"f">>, FALSE>>} :
          /\ filter_text = o[1]
          /\ apply_value_filters = o[2]
    /\ pc = "pass1"
    /\ cursor = 1
    /\ all_structure_info = EmptyMap
    /\ worksheets = EmptyMap
    /\ total_reports_processed = 0
    /\ pass1_keys = <<>>
    /\ pass2_keys = <<>>
    /\ error = ""
    /\ saved = FALSE
    /\ headers_written = <<>>
    /\ arg = Null
    /\ out = <<>>

SpecWidths == InitWidths /\ [][Next]_vars

\* the number of columns setup_headers advances by at a field
HeaderWidth(structure_info, key) ==
    FieldHeader(EmptySheet, structure_info, key, 2, MaxNestingLevel(structure_info)).col - 2

\* the number of columns add_data_row advances by at a field
DataWidth(structure_info, key, value) ==
    AddField(EmptySheet, 1, 2, key, value, structure_info, apply_value_filters).cols

\* the columns add_data_row writes cells in at a field that starts at column 2
DataColumns(structure_info, key, value) ==
    {c[2] : c \in DOMAIN AddField(EmptySheet, 1, 2, key, value, structure_info,
                                  apply_value_filters).sheet.cells}

\* the columns of row 1 the header of a field that starts at column 2 takes:
\* the label's cell and the range merged with it
HeaderColumns(structure_info, key) ==
    {2} \cup UNION {m[2]..m[3] :
                      m \in {x \in FieldHeader(EmptySheet, structure_info, key, 2,
                                               MaxNestingLevel(structure_info)).sheet.merged :
                                x[1] = 1}}

\* the three widths of a field agree and its cells stay in its columns
WidthsAgree(structure_info, key, value) ==
    /\ HeaderWidth(structure_info, key) = CountedWidth(structure_info, key)
    /\ DataWidth(structure_info, key, value) = CountedWidth(structure_info, key)
    /\ DataColumns(structure_info, key, value)
          \subseteq 2..(1 + CountedWidth(structure_info, key))
    /\ HeaderColumns(structure_info, key) \ {2}
          \subseteq 2..(1 + CountedWidth(structure_info, key))

\* C21: for every schema the first pass leaves and every field of it,
\* get_column_count, setup_headers and add_data_row give the field the same
\* width, whatever the report's value of the field; the column count is 1 +
\* the sum of the widths, the header ends at that column, and the cells a row
\* gets for the field lie in the field's columns.
C21_WidthAgreement ==
    pc # "pass1"
      => \A k \in DOMAIN all_structure_info :
            /\ \A key \in all_structure_info[k].keys :
                  \A i \in 1..Len(AllReports) :
                     WidthsAgree(all_structure_info[k], key,
                                 FieldValue(FieldsOf(AllReports[i].report), key))
            /\ get_column_count(all_structure_info[k])
                  = 1 + SumWidths(all_structure_info[k], all_structure_info[k].keys)
            /\ setup_headers(EmptySheet, all_structure_info[k]).err = ""
                  => setup_headers(EmptySheet, all_structure_info[k]).col
                        = 1 + get_column_count(all_structure_info[k])
            /\ \A i \in 1..Completed :
                  pass2_keys[i] = k
                     => ColumnsOfRow(worksheets[k].sheet, RowOfReport(i))
                           = 1..worksheets[k].column_count

\* a finished run with two rows in a sheet whose field a is a list of two
\* empty lists (dimensions [2, 0]) and takes two columns
C21_Witness ==
    /\ pc = "done"
    /\ \E k \in DOMAIN worksheets :
          /\ worksheets[k].next_row = FirstDataRow(worksheets[k]) + 2
          /\ KeyA \in DOMAIN worksheets[k].structure_info.nesting_structure
          /\ worksheets[k].structure_info.nesting_structure[KeyA] = <<2, 0>>
          /\ worksheets[k].column_count = 4

\* C22: every field of a schema the first pass leaves has a width of at least
\* 1, also a field whose values are all empty (an empty list, a list of empty
\* lists, a key-value list whose dictionaries have no keys), and the header
\* setup of the schema raises no exception.
C22_MinimumWidth ==
    pc # "pass1"
      => \A k \in DOMAIN all_structure_info :
            /\ \A key \in all_structure_info[k].keys :
                  /\ CountedWidth(all_structure_info[k], key) >= 1
                  /\ HeaderWidth(all_structure_info[k], key) >= 1
            /\ setup_headers(EmptySheet, all_structure_info[k]).err = ""

\* The same for the fields that are no key-value lists: the floor max(1, dim)
\* gives each at least one column and their header is set up.
PlainFieldsMinimumWidth ==
    pc # "pass1"
      => \A k \in DOMAIN all_structure_info :
            \A key \in all_structure_info[k].keys \ DOMAIN all_structure_info[k].kv_lists :
               /\ CountedWidth(all_structure_info[k], key) >= 1
               /\ HeaderWidth(all_structure_info[k], key) >= 1
               /\ FieldHeader(EmptySheet, all_structure_info[k], key, 2,
                              MaxNestingLevel(all_structure_info[k])).err = ""

\* ---------------------------------------------------------------------------
\* BusinessRules (utils/business_rules.py)
\* ---------------------------------------------------------------------------

\* \d+(?:[,.]\d+)?
IsNumberText(s) ==
    \/ AllDigits(s)
    \/ \E i \in 2..(Len(s) - 1) :
          /\ s[i] \in {",", "."}
          /\ AllDigits(SubSeq(s, 1, i - 1))
          /\ AllDigits(SubSeq(s, i + 1, Len(s)))

\* the positions at which the whole text is number \s* sep \s* number
SeparatorAt(s, sep) ==
    {i \in 1..Len(s) : /\ s[i] = sep
                       /\ IsNumberText(RStrip(SubSeq(s, 1, i - 1)))
                       /\ IsNumberText(LStrip(SubSeq(s, i + 1, Len(s))))}

\* the two groups of the match at a separator
SplitAt(s, i) ==
    List(<<Str(RStrip(SubSeq(s, 1, i - 1))), Str(LStrip(SubSeq(s, i + 1, Len(s))))>>)

\* split_numbers (business_rules.py 117-153) on a string: the slash pattern
\* is tried before the ampersand pattern
split_numbers(text) ==
    LET processed_text == Strip(text)
    IN  IF "&" \notin Range(processed_text) /\ "/" \notin Range(processed_text)
        THEN Str(text)
        ELSE IF SeparatorAt(processed_text, "/") # {}
        THEN SplitAt(processed_text, CHOOSE i \in SeparatorAt(processed_text, "/") : TRUE)
        ELSE IF SeparatorAt(processed_text, "&") # {}
        THEN SplitAt(processed_text, CHOOSE i \in SeparatorAt(processed_text, "&") : TRUE)
        ELSE Str(text)

\* the value of data with the dictionary the rules work on replaced: the
\* 'fields' entry if there is one, else the (copied) data itself
WithFields(data, pairs) ==
    IF KeyFields \in DKeys(data) THEN Dict(DSet(data.d, KeyFields, Dict(pairs)))
    ELSE Dict(pairs)

\* fields = result.get('fields', result)
FieldsDict(data) == IF KeyFields \in DKeys(data) THEN DGet(data, KeyFields) ELSE data

RECURSIVE transform_number_separated_values(_, _)
RECURSIVE SeparatedItems(_, _)

\* business_rules.py 173-186: new_list of a list value
SeparatedItems(items, debug) ==
    IF items = <<>> THEN <<>>
    ELSE (IF IsStr(items[1])
          THEN (IF IsList(split_numbers(items[1].s)) THEN split_numbers(items[1].s).l
                ELSE <<split_numbers(items[1].s)>>)
          ELSE IF IsDict(items[1])
          THEN <<transform_number_separated_values(items[1], debug)>>
          ELSE <<items[1]>>)
         \o SeparatedItems(Tail(items), debug)

\* business_rules.py 158-188: what the loop leaves in fields[key]
SeparatedValue(value, debug) ==
    IF IsStr(value) THEN split_numbers(value.s)
    ELSE IF IsDict(value) THEN transform_number_separated_values(value, debug)
    ELSE IF IsList(value) THEN List(SeparatedItems(value.l, debug))
    ELSE value

\* BusinessRules.transform_number_separated_values: the returned data.
\* split_numbers and the loop over the fields stand inside "if debug:"
\* (business_rules.py 114-191).
transform_number_separated_values(data, debug) ==
    IF ~IsDict(data) THEN data
    ELSE IF ~IsDict(FieldsDict(data)) THEN data
    ELSE IF ~debug THEN data
    ELSE WithFields(data, [i \in 1..Len(FieldsDict(data).d) |->
                              <<FieldsDict(data).d[i][1],
                                SeparatedValue(FieldsDict(data).d[i][2], debug)>>])

\* a list of exactly one dictionary
SingleDictList(v) == IsList(v) /\ Len(v.l) = 1 /\ IsDict(v.l[1])

\* business_rules.py 317-322, 343-348: the lists of one dictionary under a
\* dictionary two levels down are replaced by the dictionary
FlattenDeep(sub_value) ==
    Dict([i \in 1..Len(sub_value.d) |->
            <<sub_value.d[i][1],
              IF SingleDictList(sub_value.d[i][2]) THEN sub_value.d[i][2].l[1]
              ELSE sub_value.d[i][2]>>])

\* business_rules.py 310-323, 334-348: transformed_item / transformed_dict
FlattenItem(item) ==
    Dict([i \in 1..Len(item.d) |->
            <<item.d[i][1],
              IF SingleDictList(item.d[i][2]) THEN item.d[i][2].l[1]
              ELSE IF IsDict(item.d[i][2]) THEN FlattenDeep(item.d[i][2])
              ELSE item.d[i][2]>>])

\* business_rules.py 296-352: what the loop leaves in fields[key]
NestedValue(value) ==
    IF IsList(value)
    THEN (IF value.l = <<>> THEN value
          ELSE List([i \in 1..Len(value.l) |->
                       IF IsDict(value.l[i]) THEN FlattenItem(value.l[i])
                       ELSE value.l[i]]))
    ELSE IF IsDict(value) THEN FlattenItem(value)
    ELSE value

\* BusinessRules.transform_nested_key_value_lists: the returned data
transform_nested_key_value_lists(data, debug) ==
    IF ~IsDict(data) THEN data
    ELSE IF ~IsDict(FieldsDict(data)) THEN data
    ELSE WithFields(data, [i \in 1..Len(FieldsDict(data).d) |->
                              <<FieldsDict(data).d[i][1],
                                NestedValue(FieldsDict(data).d[i][2])>>])

\* BusinessRules.transform_dict_fields: a dictionary field becomes a list of
\* one dictionary
transform_dict_fields(data, debug) ==
    IF ~IsDict(data) THEN data
    ELSE IF ~IsDict(FieldsDict(data)) THEN data
    ELSE WithFields(data, [i \in 1..Len(FieldsDict(data).d) |->
                              <<FieldsDict(data).d[i][1],
                                IF IsDict(FieldsDict(data).d[i][2])
                                THEN List(<<FieldsDict(data).d[i][2]>>)
                                ELSE FieldsDict(data).d[i][2]>>])

\* BusinessRules.transform_key_value_lists: it changes nothing
transform_key_value_lists(data, debug) == data

\* BusinessRules.transform_data: the returned data
transform_data(json_data, debug) ==
    transform_key_value_lists(
        transform_dict_fields(
            transform_nested_key_value_lists(
                transform_number_separated_values(json_data, debug), debug), debug), debug)

\* json_data after transform_data(json_data) returned: json_data.copy() and
\* the data.copy() of each rule are shallow, so fields = result.get('fields')
\* is the argument's own dictionary and every "fields[key] = ..." of the
\* rules is an assignment into it (business_rules.py 211, 103, 106, 164, 169,
\* 188, 329, 352, 402)
ArgumentAfter(json_data, debug) ==
    IF KeyFields \in DKeys(json_data) /\ IsDict(DGet(json_data, KeyFields))
    THEN Dict(DSet(json_data.d, KeyFields,
                   DGet(transform_data(json_data, debug), KeyFields)))
    ELSE json_data

\* string field values: pairs of numbers with either separator, with decimal
\* marks and spaces, and texts that are no such pair
RuleTexts ==
    {<<"1", "&", "2">>, <<"0", ",", "9", "7", " ", "/", " ", "2", ",", "8", "6">>,
     <<"a", "b">>, <<"1", "/", "2", "/", "3">>, <<" ", "7", "/", "8", " ">>,
     <<"1", ".", "5", "&", "2">>, <<"1", ",", "&", "2">>, <<"1", "2">>,
     <<"a", "&", "1">>}

OneX == Dict(<< <<KeyX, Num(1)>> >>)

\* field values: strings, a number, dictionaries and lists with strings,
\* dictionaries and lists of one dictionary under them
RuleValues ==
    {Str(t) : t \in RuleTexts}
    \cup {Num(1), OneX, Dict(<< <<KeyX, Str(<<"1", "&", "2">>)>> >>),
          Dict(<< <<KeyX, List(<<OneX>>)>> >>),
          Dict(<< <<KeyX, Dict(<< <<KeyY, List(<<OneX>>)>> >>)>> >>),
          List(<<OneX>>), List(<<Str(<<"1", "&", "2">>), Str(<<"a", "b">>)>>),
          List(<<Dict(<< <<KeyX, Str(<<"1", "/", "2">>)>> >>)>>),
          List(<<>>), List(<<Num(1), Num(2)>>),
          List(<<Dict(<< <<KeyX, Dict(<< <<KeyY, List(<<OneX>>)>> >>)>> >>)>>)}

\* the data the rules are applied to: reports with a 'fields' dictionary, and
\* dictionaries without one
RuleData ==
    {Report(TitleT, a, FALSE, b, b = Null) :
        a \in RuleValues, b \in {Null, Str(<<"1", "/", "2">>)}}
    \cup {Dict(<< <<KeyA, a>> >>) : a \in RuleValues}

InitRules ==
    /\ arg \in [data : RuleData, debug : BOOLEAN]
    /\ pc = "rules"
    /\ out = <<>>
    /\ all_json_data = <<>>
    /\ filter_text = <<>>
    /\ apply_value_filters = FALSE
    /\ cursor = 1
    /\ all_structure_info = EmptyMap
    /\ worksheets = EmptyMap
    /\ total_reports_processed = 0
    /\ pass1_keys = <<>>
    /\ pass2_keys = <<>>
    /\ error = ""
    /\ saved = FALSE
    /\ headers_written = <<>>

\* a call of BusinessRules.transform_number_separated_values(data, debug)
SeparateNumbers ==
    /\ pc = "rules"
    /\ pc' = "separated"
    /\ out' = [ret |-> transform_number_separated_values(arg.data, arg.debug)]
    /\ UNCHANGED <<headers_written, all_json_data, filter_text, apply_value_filters,
                   cursor, all_structure_info, worksheets, total_reports_processed,
                   pass1_keys, pass2_keys, error, saved, arg>>

\* a call of BusinessRules.transform_data(json_data, debug) on a report: the
\* returned data and the argument after the call
TransformData ==
    /\ pc = "rules"
    /\ KeyFields \in DKeys(arg.data)
    /\ pc' = "transformed"
    /\ out' = [ret |-> transform_data(arg.data, arg.debug),
               arg |-> ArgumentAfter(arg.data, arg.debug)]
    /\ UNCHANGED <<headers_written, all_json_data, filter_text, apply_value_filters,
                   cursor, all_structure_info, worksheets, total_reports_processed,
                   pass1_keys, pass2_keys, error, saved, arg>>

NextRules == SeparateNumbers \/ TransformData

SpecRules == InitRules /\ [][NextRules]_vars

\* the positions of a separator between two numbers that make up the text
PairSeparators(s) ==
    {i \in 1..Len(s) : /\ s[i] \in {"&", "/"}
                       /\ IsNumberText(RStrip(SubSeq(s, 1, i - 1)))
                       /\ IsNumberText(LStrip(SubSeq(s, i + 1, Len(s))))}

\* what the rule is to make of a string
ExpectedSplit(text) ==
    IF PairSeparators(Strip(text)) = {} THEN Str(text)
    ELSE SplitAt(Strip(text), CHOOSE i \in PairSeparators(Strip(text)) : TRUE)

\* every string field of the data has its expected value in the result
StringsSplit(data, result) ==
    \A i \in 1..Len(FieldsDict(data).d) :
        IsStr(FieldsDict(data).d[i][2])
           => /\ FieldsDict(data).d[i][1] \in DKeys(FieldsDict(result))
              /\ DGet(FieldsDict(result), FieldsDict(data).d[i][1])
                    = ExpectedSplit(FieldsDict(data).d[i][2].s)

\* C23: for either value of the debug flag transform_number_separated_values,
\* and transform_data through it, replaces a string field that is two numbers
\* separated by '&' or '/' with the list of the two and leaves every other
\* string field as it is; the returned data is the same for both values of
\* the flag.
C23_NumberSeparation ==
    /\ pc = "separated"
          => /\ StringsSplit(arg.data, out.ret)
             /\ out.ret = transform_number_separated_values(arg.data, ~arg.debug)
    /\ pc = "transformed"
          => /\ StringsSplit(arg.data, out.ret)
             /\ out.ret = transform_data(arg.data, ~arg.debug)

\* With the debug flag set the strings are split as claimed.
SeparationWithDebug ==
    (pc \in {"separated", "transformed"} /\ arg.debug) => StringsSplit(arg.data, out.ret)

\* C28: transform_data leaves its argument as it was: after the call the
\* report, its 'fields' dictionary and what lies under it equal their values
\* before the call.
C28_ArgumentUnmodified ==
    pc = "transformed" => out.arg = arg.data

\* Nothing outside the 'fields' dictionary of the argument changes.
ArgumentTopLevelKept ==
    pc = "transformed"
       => /\ DKeys(out.arg) = DKeys(arg.data)
          /\ \A key \in DKeys(arg.data) \ {KeyFields} :
                DGet(out.arg, key) = DGet(arg.data, key)


-----------------------------------------------------------------------------
(* process_field_merging (Components/Processing/Utilities/merger.py) *)

\* extracted_data is the sequence of its <<field_name, field>> pairs in
\* insertion order; a field is [raw_text, formatted_text, parsed_data], the
\* texts sequences of pieces and parsed_data a sequence of <<key, value>>.

PlusOne == <<"(", "+", "1", ")">>

\* merger.py 36: field_name.replace("(+1)", "").strip()
BaseFieldName(field_name) == Strip(Replace(field_name, PlusOne))

\* merger.py 59-63, first entry
StatsPrefix ==
    <<"E", "-", "S", "t", "o", "r", "a", "g", "e", "_", "E", "O", "L", "_",
      "R", "e", "p", "o", "r", "t", "_", "S", "t", "a", "t", "s">>

\* merger.py 59-63, second entry
GeneralInfoPrefix ==
    <<"E", "-", "S", "t", "o", "r", "a", "g", "e", "_", "E", "O", "L", "_",
      "R", "e", "p", "o", "r", "t", "_", "G", "e", "n", "e", "r", "a", "l", "_",
      "I", "n", "f", "o">>

preserve_duplicates_fields == <<StatsPrefix, GeneralInfoPrefix>>

\* merger.py 71
should_preserve_duplicates(base_field) ==
    \E i \in 1..Len(preserve_duplicates_fields) :
        StartsWith(base_field, preserve_duplicates_fields[i])

\* merger.py 82, 127: re.search(r'\[([^\]]+)\]', key)
is_unit_key(key) ==
    \E i \in 1..Len(key), j \in 1..Len(key) :
        /\ key[i] = "["
        /\ key[j] = "]"
        /\ j > i + 1
        /\ \A m \in (i + 1)..(j - 1) : key[m] # "]"

\* v == "" or v is None
IsEmptyValue(v) == v = EmptyStr \/ v = Null

\* merger.py 118-124: the values the merge passes over
SkippedValue(value) ==
    \/ IsEmptyValue(value)
    \/ IsList(value) /\ \A i \in 1..Len(value.l) : IsEmptyValue(value.l[i])

\* a value as the list extend/append/+ adds: merger.py 147-150, 154-157
AsItems(value) == IF IsList(value) THEN value.l ELSE <<value>>

RECURSIVE AppendNew(_, _)
\* merger.py 165-170: the items not yet in the list are appended to it
AppendNew(base_items, items) ==
    IF items = <<>> THEN base_items
    ELSE AppendNew(IF items[1] \notin Range(base_items) /\ ~IsEmptyValue(items[1])
                   THEN Append(base_items, items[1])
                   ELSE base_items,
                   Tail(items))

\* merger.py 184: the items of value that are not empty and not base_value
NonEmptyOther(items, base_value) ==
    SelectSeq(items, LAMBDA v : ~IsEmptyValue(v) /\ v # base_value)

\* merger.py 201
NonEmptyValues(items) == SelectSeq(items, LAMBDA v : ~IsEmptyValue(v))

\* merger.py 135-196: key is in merged_parsed_data with value base_value
MergePresent(merged, key, value, base_value, preserve) ==
    IF is_unit_key(key) \/ preserve
    THEN IF IsList(base_value)
         THEN DSet(merged, key, List(base_value.l \o AsItems(value)))
         ELSE DSet(merged, key, List(<<base_value>> \o AsItems(value)))
    ELSE IF IsList(base_value) /\ IsList(value)
    THEN DSet(merged, key, List(AppendNew(base_value.l, value.l)))
    ELSE IF IsList(base_value)
    THEN IF value \notin Range(base_value.l)
         THEN DSet(merged, key, List(Append(base_value.l, value)))
         ELSE merged
    ELSE IF IsList(value)
    THEN IF NonEmptyOther(value.l, base_value) # <<>>
         THEN DSet(merged, key, List(<<base_value>> \o NonEmptyOther(value.l, base_value)))
         ELSE merged
    ELSE IF base_value # value
    THEN DSet(merged, key, List(<<base_value, value>>))
    ELSE merged

\* merger.py 197-207: key is not in merged_parsed_data
MergeAbsent(merged, key, value) ==
    IF IsList(value)
    THEN IF NonEmptyValues(value.l) # <<>>
         THEN DSet(merged, key, IF Len(NonEmptyValues(value.l)) > 1
                                THEN List(NonEmptyValues(value.l))
                                ELSE NonEmptyValues(value.l)[1])
         ELSE merged
    ELSE DSet(merged, key, value)

\* merger.py 116-207: one item of ext_data["parsed_data"]
MergeItem(merged, key, value, preserve) ==
    IF SkippedValue(value) THEN merged
    ELSE IF key \in DKeys(Dict(merged))
    THEN MergePresent(merged, key, value, DGet(Dict(merged), key), preserve)
    ELSE MergeAbsent(merged, key, value)

RECURSIVE MergeParsedData(_, _, _)
\* merger.py 116: the loop over ext_data["parsed_data"].items()
MergeParsedData(merged, todo, preserve) ==
    IF todo = <<>> THEN merged
    ELSE MergeParsedData(MergeItem(merged, todo[1][1], todo[1][2], preserve),
                         Tail(todo), preserve)

AdditionalData == "\n\n--- Additional Data ---\n\n"

RECURSIVE MergeExtensions(_, _, _, _)
\* merger.py 97-207: the loop over extension_fields; acc is the triple
\* merged_raw_text, merged_formatted_text, merged_parsed_data
MergeExtensions(acc, extracted_data, extension_fields, preserve) ==
    IF extension_fields = <<>> THEN acc
    ELSE MergeExtensions(
             [raw_text |-> acc.raw_text \o <<AdditionalData>>
                              \o DGet(Dict(extracted_data), extension_fields[1]).raw_text,
              formatted_text |-> acc.formatted_text \o <<AdditionalData>>
                              \o DGet(Dict(extracted_data), extension_fields[1]).formatted_text,
              parsed_data |-> MergeParsedData(
                                  acc.parsed_data,
                                  DGet(Dict(extracted_data), extension_fields[1]).parsed_data,
                                  preserve)],
             extracted_data, Tail(extension_fields), preserve)

\* clean_empty_keys of Components/Processing/Utilities/cleaner.py, which the
\* repository's source tree here does not hold: the keys whose value is
\* empty are dropped, the other values are kept as they are
clean_empty_keys(pairs) ==
    SelectSeq(pairs, LAMBDA p : ~(IsEmptyValue(p[2]) \/ p[2] = List(<<>>)))

\* merger.py 33-54, merge_candidates: the extension fields of a base field, in order
ExtensionsOf(extracted_data, base_field) ==
    LET names == [i \in 1..Len(extracted_data) |-> extracted_data[i][1]]
    IN  SelectSeq(names, LAMBDA field_name :
                             /\ Contains(field_name, PlusOne)
                             /\ BaseFieldName(field_name) = base_field)

\* merger.py 33-54, merged_data: the fields that are not the extension of a
\* field of the data
FirstPass(extracted_data) ==
    SelectSeq(extracted_data,
              LAMBDA p : \/ ~Contains(p[1], PlusOne)
                         \/ BaseFieldName(p[1]) \notin DKeys(Dict(extracted_data)))

\* merger.py 66-220: the base field with its extensions merged into it
MergedField(extracted_data, base_field) ==
    LET merged == MergeExtensions(DGet(Dict(extracted_data), base_field),
                                  extracted_data,
                                  ExtensionsOf(extracted_data, base_field),
                                  should_preserve_duplicates(base_field))
    IN  [merged EXCEPT !.parsed_data = clean_empty_keys(@)]

\* merger.py 14-231
process_field_merging(extracted_data) ==
    LET merged_data == FirstPass(extracted_data)
    IN  [i \in 1..Len(merged_data) |->
            IF ExtensionsOf(extracted_data, merged_data[i][1]) # <<>>
            THEN <<merged_data[i][1], MergedField(extracted_data, merged_data[i][1])>>
            ELSE merged_data[i]]

\* Inputs of process_field_merging: a base field, one or two extension
\* fields of it, or an extension field of a field the data lacks.

NamePlain == <<"F">>

NameStats == StatsPrefix \o <<"_", "2">>

NameOrphan == <<"G", " ">> \o PlusOne

KeyUnit == <<"U", " ", "[", "V", "]">>

KeyCount == <<"n">>

Five == Str(<<"5">>)

Six == Str(<<"6">>)

\* marks a key the parsed data lacks
Absent == [k |-> "absent", s |-> <<>>, n |-> 0, l |-> <<>>, d |-> <<>>]

ParsedData(unit, count) ==
    (IF unit = Absent THEN <<>> ELSE <<<<KeyUnit, unit>>>>)
       \o (IF count = Absent THEN <<>> ELSE <<<<KeyCount, count>>>>)

MergeField(tag, parsed_data) ==
    [raw_text |-> <<"raw " \o tag>>, formatted_text |-> <<"formatted " \o tag>>,
     parsed_data |-> parsed_data]

BaseParsedData ==
    {ParsedData(u, c) : u \in {Absent, Five, List(<<Five>>), List(<<Five, Six>>), EmptyStr},
                        c \in {Absent, Five, List(<<Five>>)}}

ExtensionParsedData ==
    {ParsedData(u, c) :
        u \in {Absent, Five, Six, EmptyStr, Null, List(<<>>), List(<<EmptyStr>>),
               List(<<Five>>), List(<<Five, Five>>), List(<<Five, Six>>),
               List(<<Five, EmptyStr>>)},
        c \in {Absent, Five, Six, List(<<Five, Five>>), List(<<Five, Six>>)}}

SecondExtensions(base_field) ==
    {<<>>}
       \cup {<< <<PlusOne \o <<" ">> \o base_field, MergeField("2", ParsedData(u, Absent))>> >> :
                u \in {Five, List(<<Five, EmptyStr>>)}}
       \cup {<< <<NameOrphan, MergeField("2", ParsedData(Five, Absent))>> >>}

MergeInputs ==
    UNION {{<< <<base_field, MergeField("0", base)>>,
               <<base_field \o <<" ">> \o PlusOne, MergeField("1", ext)>> >> \o second :
               base \in BaseParsedData, ext \in ExtensionParsedData,
               second \in SecondExtensions(base_field)} :
           base_field \in {NamePlain, NameStats}}

InitMerge ==
    /\ arg \in MergeInputs
    /\ pc = "merge"
    /\ out = <<>>
    /\ all_json_data = <<>>
    /\ filter_text = <<>>
    /\ apply_value_filters = FALSE
    /\ cursor = 1
    /\ all_structure_info = EmptyMap
    /\ worksheets = EmptyMap
    /\ total_reports_processed = 0
    /\ pass1_keys = <<>>
    /\ pass2_keys = <<>>
    /\ error = ""
    /\ saved = FALSE
    /\ headers_written = <<>>

\* a call of process_field_merging(extracted_data)
MergeFields ==
    /\ pc = "merge"
    /\ pc' = "merged"
    /\ out' = [ret |-> process_field_merging(arg)]
    /\ UNCHANGED <<headers_written, all_json_data, filter_text, apply_value_filters,
                   cursor, all_structure_info, worksheets, total_reports_processed,
                   pass1_keys, pass2_keys, error, saved, arg>>

NextMerge == MergeFields

SpecMerge == InitMerge /\ [][NextMerge]_vars

\* the base field of the input and its parsed data before and after the merge
MergeBase == arg[1][1]

ParsedBefore == Dict(arg[1][2].parsed_data)

ParsedAfter == Dict(DGet(Dict(out.ret), MergeBase).parsed_data)

\* the continuation fields of the base field, in order
Continuations ==
    SelectSeq(arg, LAMBDA p : /\ Contains(p[1], PlusOne)
                              /\ BaseFieldName(p[1]) = MergeBase)

\* the values one parsed data carries for a key, none when the value is empty
CarriedValues(parsed_data, key) ==
    IF key \notin DKeys(Dict(parsed_data)) THEN <<>>
    ELSE IF SkippedValue(DGet(Dict(parsed_data), key)) THEN <<>>
    ELSE AsItems(DGet(Dict(parsed_data), key))

RECURSIVE ContinuationValues(_, _)
ContinuationValues(fields, key) ==
    IF fields = <<>> THEN <<>>
    ELSE CarriedValues(fields[1][2].parsed_data, key)
            \o ContinuationValues(Tail(fields), key)

\* the base value(s) of a key
BaseValues(key) ==
    IF key \in DKeys(ParsedBefore) THEN AsItems(DGet(ParsedBefore, key)) ELSE <<>>

\* the key is a unit key or the base field preserves duplicates
Preserved(key) == is_unit_key(key) \/ should_preserve_duplicates(MergeBase)

\* the merged value of the key is the list of the base value(s) followed by
\* the continuation value(s)
KeptAsList(key) ==
    /\ key \in DKeys(ParsedAfter)
    /\ DGet(ParsedAfter, key) = List(BaseValues(key) \o ContinuationValues(Continuations, key))

\* C24: after process_field_merging, for every parsed_data key that is a
\* unit-bracket key or belongs to a base field with a preserve-duplicates
\* prefix, and for which a '(+1)' continuation field carries a non-empty
\* value, the merged value is the list of the base value(s) followed by the
\* continuation value(s), duplicates kept; it is never a single value.
C24_DuplicatePreservation ==
    pc = "merged"
       => \A key \in {KeyUnit, KeyCount} :
             (Preserved(key) /\ ContinuationValues(Continuations, key) # <<>>)
                => KeptAsList(key)

\* The same for the keys the base field holds before the merge.
BaseKeysKeptAsLists ==
    pc = "merged"
       => \A key \in DKeys(ParsedBefore) :
             (Preserved(key) /\ ContinuationValues(Continuations, key) # <<>>)
                => KeptAsList(key)

\* A unit key the base field lacks comes out as the single value of its
\* one continuation.
SingleValueKept ==
    /\ pc = "merged"
    /\ KeyUnit \notin DKeys(ParsedBefore)
    /\ ContinuationValues(Continuations, KeyUnit) # <<>>
    /\ KeyUnit \in DKeys(ParsedAfter)
    /\ ~IsList(DGet(ParsedAfter, KeyUnit))


-----------------------------------------------------------------------------
(* JsonAnalyzer._analyze_list_depth on its own *)

MaxLevels == 3

MaxLength == 2

RECURSIVE ListValues(_)
\* the values with at most n list levels: a number, or a list of at most
\* MaxLength values with fewer levels
ListValues(n) ==
    IF n = 0 THEN {Num(1)}
    ELSE {Num(1), List(<<>>)}
            \cup {List(xs) : xs \in SeqsUpTo(ListValues(n - 1), MaxLength)}

DepthValues == ListValues(MaxLevels) \cup {FiveVolts, Null, Dict(<<>>)}

InitDepth ==
    /\ arg \in DepthValues
    /\ pc = "depth"
    /\ out = <<>>
    /\ all_json_data = <<>>
    /\ filter_text = <<>>
    /\ apply_value_filters = FALSE
    /\ cursor = 1
    /\ all_structure_info = EmptyMap
    /\ worksheets = EmptyMap
    /\ total_reports_processed = 0
    /\ pass1_keys = <<>>
    /\ pass2_keys = <<>>
    /\ error = ""
    /\ saved = FALSE
    /\ headers_written = <<>>

\* a call of JsonAnalyzer._analyze_list_depth(value)
AnalyzeDepth ==
    /\ pc = "depth"
    /\ pc' = "analysed"
    /\ out' = analyze_list_depth(arg, 0)
    /\ UNCHANGED <<headers_written, all_json_data, filter_text, apply_value_filters,
                   cursor, all_structure_info, worksheets, total_reports_processed,
                   pass1_keys, pass2_keys, error, saved, arg>>

NextDepth == AnalyzeDepth

SpecDepth == InitDepth /\ [][NextDepth]_vars

RECURSIVE ListsAt(_, _)
\* the lists found at nesting level L of a value, the value itself at level 0
ListsAt(value, L) ==
    IF L = 0 THEN IF IsList(value) THEN {value} ELSE {}
    ELSE UNION {{x.l[i] : i \in {j \in 1..Len(x.l) : IsList(x.l[j])}} :
                   x \in ListsAt(value, L - 1)}

\* the number of list levels of a value: the levels that hold a list
ListLevels(value) == Cardinality({L \in 0..MaxLevels : ListsAt(value, L) # {}})

\* the maximum length of the lists at level L
MaxLengthAt(value, L) == SetMax({Len(x.l) : x \in ListsAt(value, L)})

\* the dimensions hold the maximum length of the lists of every level
DimensionsOf(value, dims) ==
    /\ Len(dims) = ListLevels(value)
    /\ \A L \in 0..(Len(dims) - 1) : dims[L + 1] = MaxLengthAt(value, L)

\* C25: _analyze_list_depth returns dimensions whose entry 0 is the length of
\* the top-level list and whose entry L >= 1 is the maximum length of the
\* lists at nesting level L, down to the first level with no list among its
\* items; a value that is not a list gives depth 0 and dimensions []; the
\* returned depth is the number of list levels traversed.
C25_DimensionInference ==
    pc = "analysed"
       => /\ DimensionsOf(arg, out.dims)
          /\ out.depth = ListLevels(arg)
          /\ ~IsList(arg) => (out.depth = 0 /\ out.dims = <<>>)

\* The dimensions are as claimed for every value.
DimensionsInferred == pc = "analysed" => DimensionsOf(arg, out.dims)

\* the deepest level holds a list that is not empty
DeepestNotEmpty(value) ==
    \E x \in ListsAt(value, ListLevels(value) - 1) : Len(x.l) > 0

\* The depth is the number of list levels unless every list of the deepest
\* level is empty, and one less then.
DepthInferred ==
    pc = "analysed"
       => out.depth = IF ~IsList(arg) \/ DeepestNotEmpty(arg)
                      THEN ListLevels(arg)
                      ELSE ListLevels(arg) - 1

\* the depth returned for [[], []] is 1, its dimensions [2, 0]
EmptyListsNotCounted ==
    /\ pc = "analysed"
    /\ arg = List(<<List(<<>>), List(<<>>)>>)
    /\ out.depth = 1
    /\ out.dims = <<2, 0>>


-----------------------------------------------------------------------------
(* The subtitles of a nested-list field *)

\* the dimensions floored to 1
Floored(dimensions) == [i \in 1..Len(dimensions) |-> Max(1, dimensions[i])]

\* the number of sub-spans of level L: the product of the dimensions 0..L
SpansAt(dimensions, L) == Product(SubSeq(Floored(dimensions), 1, L + 1))

\* the width of a sub-span of level L
SpanWidth(dimensions, L) == ProductFloored(dimensions) \div SpansAt(dimensions, L)

RECURSIVE TilingLabel(_, _, _, _)
\* the label of the j-th sub-span (from 0) of level L: the label of its
\* parent span, then ' - #' and its 1-based index in the parent
TilingLabel(key, dimensions, L, j) ==
    (IF L = 0 THEN key
     ELSE TilingLabel(key, dimensions, L - 1, j \div Floored(dimensions)[L + 1]))
       \o <<" ", "-", " ", "#">>
       \o Digits((j % Floored(dimensions)[L + 1]) + 1)

\* row L + 2 of the field's columns holds the sub-spans of level L and
\* nothing else
LevelTiled(sheet, key, start, dimensions, L) ==
    LET n == SpansAt(dimensions, L)
        w == SpanWidth(dimensions, L)
        columns == start..(start + ProductFloored(dimensions) - 1)
    IN  /\ ColumnsOfRow(sheet, L + 2) \cap columns = {start + j * w : j \in 0..(n - 1)}
        /\ \A j \in 0..(n - 1) :
              /\ sheet.cells[<<L + 2, start + j * w>>]
                    = Str(TilingLabel(key, dimensions, L, j))
              /\ w > 1 => <<L + 2, start + j * w, start + (j + 1) * w - 1>> \in sheet.merged
        /\ \A m \in sheet.merged :
              (m[1] = L + 2 /\ m[2] \in columns)
                 => \E j \in 0..(n - 1) : m = <<L + 2, start + j * w, start + (j + 1) * w - 1>>

\* the header of a nested-list field of a sheet tiles its columns
FieldTiled(ws, key) ==
    LET info == ws.structure_info
        dimensions == info.nesting_structure[key]
        start == FieldStart(info, key)
    IN  /\ ws.sheet.cells[<<1, start>>] = Str(key)
        /\ <<1, start, start + ProductFloored(dimensions) - 1>> \in ws.sheet.merged
        /\ \A L \in 0..(Len(dimensions) - 1) :
              L + 1 <= MaxNestingLevel(info)
                 => LevelTiled(ws.sheet, key, start, dimensions, L)

\* the nested-list fields of a sheet that take more than one column
WideFields(ws) ==
    {key \in (ws.structure_info.keys \cap DOMAIN ws.structure_info.nesting_structure)
                \ DOMAIN ws.structure_info.kv_lists :
        ProductFloored(ws.structure_info.nesting_structure[key]) > 1}

\* C26: in every sheet, for a nested-list field of width W > 1, the product
\* of its dimensions floored to 1, the header cell is merged over the W
\* columns of the field in row 1, and for every level L within the subtitle
\* rows the cells of row L + 2 split the field's columns into equal,
\* contiguous, non-overlapping sub-spans, dimensions[L] per parent span, each
\* labelled '<parent label> - #<index from 1>', the field name being the
\* parent label of level 0.
C26_SubtitleTiling ==
    \A k \in DOMAIN worksheets :
        \A key \in WideFields(worksheets[k]) : FieldTiled(worksheets[k], key)

\* a sheet is written whose field a has the dimensions [2, 2] and the
\* subtitle 'a - #2 - #1' in row 3, two columns after the field's first
C26_Witness ==
    /\ pc = "done"
    /\ \E k \in DOMAIN worksheets :
          /\ KeyA \in WideFields(worksheets[k])
          /\ worksheets[k].structure_info.nesting_structure[KeyA] = <<2, 2>>
          /\ worksheets[k].sheet.cells[<<3, FieldStart(worksheets[k].structure_info, KeyA) + 2>>]
                = Str(<<"a", " ", "-", " ", "#", "2", " ", "-", " ", "#", "1">>)


-----------------------------------------------------------------------------
(* The columns of a key-value list in a data row *)

PathAX == <<"a", ".", "x">>

PathAY == <<"a", ".", "y">>

\* kv_list_info: the keys a and b, one of them with two registered paths or none
KvWidthSchemas ==
    {[unique_keys |-> <<KeyA, KeyB>>],
     [unique_keys |-> <<KeyA, KeyB>>,
      nested_structure |-> (KeyA :> [paths |-> <<PathAX, PathAY>>])],
     [unique_keys |-> <<KeyA, KeyB>>,
      nested_structure |-> (KeyB :> [paths |-> <<PathBX, PathBY>>])]}

\* what an item has under a key of a schema: nothing, a number, a string, and
\* for a key with registered paths a dictionary
KvItemValues(kv_list_info, key) ==
    {Absent, Num(1), FiveVolts}
       \cup (IF key \in DOMAIN NestedStructureOf(kv_list_info)
             THEN {Dict(<< <<KeyX, Num(10)>>, <<KeyY, Num(20)>> >>)}
             ELSE {})

KvItem(a, b) ==
    Dict((IF a = Absent THEN <<>> ELSE << <<KeyA, a>> >>)
            \o (IF b = Absent THEN <<>> ELSE << <<KeyB, b>> >>))

\* the values of the field: "" for a report without it, a number, an empty
\* list, a list of numbers, lists of one or two items
KvWidthValues(kv_list_info) ==
    {EmptyStr, Num(5), List(<<>>), List(<<Num(1)>>)}
       \cup {List(<<KvItem(a, b)>> \o rest) :
                a \in KvItemValues(kv_list_info, KeyA),
                b \in KvItemValues(kv_list_info, KeyB),
                rest \in {<<>>, <<KvItem(Num(3), Num(4))>>}}

InitKvWidth ==
    /\ \E s \in KvWidthSchemas : \E v \in KvWidthValues(s) : \E c \in 2..3 :
          arg = [kv_list_info |-> s, value |-> v, row_num |-> 2, start_column |-> c]
    /\ apply_value_filters \in BOOLEAN
    /\ out = EmptySheet
    /\ pc = "render"
    /\ all_json_data = <<>>
    /\ filter_text = <<>>
    /\ cursor = 1
    /\ all_structure_info = EmptyMap
    /\ worksheets = EmptyMap
    /\ total_reports_processed = 0
    /\ pass1_keys = <<>>
    /\ pass2_keys = <<>>
    /\ error = ""
    /\ saved = FALSE
    /\ headers_written = <<>>

SpecKvWidth == InitKvWidth /\ [][NextKv]_vars

\* the first of the columns reserved for the j-th unique key
KvKeyStart(kv_list_info, start_column, j) ==
    start_column + KvTotalColumns(kv_list_info, SubSeq(kv_list_info.unique_keys, 1, j - 1))

\* the columns reserved for the j-th unique key
KvKeyColumns(kv_list_info, start_column, j) ==
    KvKeyStart(kv_list_info, start_column, j)..
        (KvKeyStart(kv_list_info, start_column, j)
            + KvKeyWidth(kv_list_info, kv_list_info.unique_keys[j]) - 1)

\* the value has a first item that is a mapping
HasFirstItem(value) == IsList(value) /\ value.l # <<>> /\ IsDict(value.l[1])

\* the cells of the row are those of the reserved columns
ReservedColumnsWritten ==
    /\ out.err = ""
    /\ DOMAIN out.cells
          = {arg.row_num}
               \X (arg.start_column..
                     (arg.start_column
                         + KvTotalColumns(arg.kv_list_info, arg.kv_list_info.unique_keys) - 1))

\* the j-th unique key has its value of the first item in the first of its
\* columns when the value is no mapping, and "" in all its columns when the
\* first item lacks the key or there is no first item
KeyInItsColumns(j) ==
    LET key == arg.kv_list_info.unique_keys[j]
        first == KvKeyStart(arg.kv_list_info, arg.start_column, j)
    IN  IF HasFirstItem(arg.value) /\ key \in DKeys(arg.value.l[1])
        THEN IsDict(DGet(arg.value.l[1], key))
                \/ out.cells[<<arg.row_num, first>>]
                      = Filtered(DGet(arg.value.l[1], key), apply_value_filters)
        ELSE \A c \in KvKeyColumns(arg.kv_list_info, arg.start_column, j) :
                out.cells[<<arg.row_num, c>>] = EmptyStr

PlainKeysFixedWidth ==
    (pc = "rendered" /\ DOMAIN NestedStructureOf(arg.kv_list_info) = {})
       => /\ ReservedColumnsWritten
          /\ \A j \in 1..Len(arg.kv_list_info.unique_keys) : KeyInItsColumns(j)

\* the value of b is in the second of the two columns reserved for a
LaterKeyShifted ==
    /\ pc = "rendered"
    /\ arg.kv_list_info.unique_keys = <<KeyA, KeyB>>
    /\ KvKeyWidth(arg.kv_list_info, KeyA) = 2
    /\ arg.value = List(<<KvItem(Num(1), FiveVolts)>>)
    /\ ~apply_value_filters
    /\ out.cells[<<arg.row_num, arg.start_column + 1>>] = FiveVolts
    /\ out.cells[<<arg.row_num, arg.start_column + 2>>] = EmptyStr


-----------------------------------------------------------------------------
(* _add_nested_data with the dimensions of the value itself *)

\* the lists of at most MaxLevels levels, each with its own dimensions
InitAlign ==
    /\ \E v \in {x \in ListValues(MaxLevels) : IsList(x)} : \E c \in 2..3 :
          arg = [dimensions |-> analyze_list_depth(v, 0).dims, value |-> v,
                 row_num |-> 2, start_column |-> c]
    /\ apply_value_filters \in BOOLEAN
    /\ out = EmptySheet
    /\ pc = "flatten"
    /\ all_json_data = <<>>
    /\ filter_text = <<>>
    /\ cursor = 1
    /\ all_structure_info = EmptyMap
    /\ worksheets = EmptyMap
    /\ total_reports_processed = 0
    /\ pass1_keys = <<>>
    /\ pass2_keys = <<>>
    /\ error = ""
    /\ saved = FALSE
    /\ headers_written = <<>>

SpecAlign == InitAlign /\ [][NextFlatten]_vars

RECURSIVE LeafPaths(_, _)
\* the leaves of a value, each with its index path (indices from 0)
LeafPaths(value, path) ==
    IF ~IsList(value) THEN {<<path, value>>}
    ELSE UNION {LeafPaths(value.l[i], Append(path, i - 1)) : i \in 1..Len(value.l)}

RECURSIVE PathOffset(_, _)
\* the row-major offset of an index path over the dimensions
PathOffset(path, dimensions) ==
    IF path = <<>> THEN 0
    ELSE path[1] * ProductFloored(Tail(dimensions)) + PathOffset(Tail(path), Tail(dimensions))

\* every leaf is in the column of its index path
LeavesAligned ==
    \A leaf \in LeafPaths(arg.value, <<>>) :
        /\ <<arg.row_num, arg.start_column + PathOffset(leaf[1], arg.dimensions)>>
              \in DOMAIN out.sheet.cells
        /\ out.sheet.cells[<<arg.row_num,
                             arg.start_column + PathOffset(leaf[1], arg.dimensions)>>]
              = Filtered(leaf[2], apply_value_filters)

\* the cells of the row are those of the field's columns
WithinWidth ==
    /\ out.sheet.err = ""
    /\ ColumnsOfRow(out.sheet, arg.row_num)
          = arg.start_column..(arg.start_column + ProductFloored(arg.dimensions) - 1)

\* C29: for any nested list, with scalars next to sub-lists or sub-lists of
\* different depths, rendered against the dimensions classified from the
\* value itself, every leaf is written at the column offset its index path
\* has in row-major order over the dimensions, and the cells written stay
\* within the field's width.
C29_LeafAlignment ==
    pc = "flattened" => (LeavesAligned /\ WithinWidth)

\* The cells stay within the field's width for every value.
CellsWithinWidth == pc = "flattened" => WithinWidth

\* The leaves are aligned when all of them lie at the deepest level.
UniformLeavesAligned ==
    (pc = "flattened"
       /\ \A leaf \in LeafPaths(arg.value, <<>>) : Len(leaf[1]) = Len(arg.dimensions))
       => LeavesAligned

\* [1, [1, 1]] has the dimensions [2, 2]; the leaves of the sub-list, of
\* offsets 2 and 3, are written at offsets 1 and 2
LeafOutOfPlace ==
    /\ pc = "flattened"
    /\ arg.value = List(<<Num(1), List(<<Num(1), Num(1)>>)>>)
    /\ arg.dimensions = <<2, 2>>
    /\ out.sheet.cells[<<arg.row_num, arg.start_column + 1>>] = Num(1)
    /\ out.sheet.cells[<<arg.row_num, arg.start_column + 3>>] = EmptyStr


-----------------------------------------------------------------------------
(* The values add_data_row hands to the cells *)

\* C30: for every set of input reports and the schema pass 1 leaves for
\* them, every value add_data_row writes into a data cell is a string, a
\* number or null: no run hands a list or a mapping to a cell, which the
\* workbook rejects with ValueError.
C30_ScalarCells == error # "ValueError: Cannot convert to Excel"

\* the second report of a sheet holds a list of mappings under a field that
\* the first report lacks; the run has failed at its row
MappingHandedToCell ==
    /\ pc = "failed"
    /\ error = "ValueError: Cannot convert to Excel"
    /\ Len(AllReports) = 2
    /\ Len(pass2_keys) = 2
    /\ KeyA \notin DKeys(FieldsOf(AllReports[1].report))
    /\ KeyA \in DKeys(FieldsOf(AllReports[2].report))
    /\ NonEmptyListOfDicts(DGet(FieldsOf(AllReports[2].report), KeyA))

====
